---- MODULE Spec2Model ----
(***************************************************************************)
(* A model of the minijail sandbox engine (src/libminijail.c): the Policy  *)
(* object and its builder, the marshaller, the jail entry sequence, the    *)
(* launch paths (minijail_run_pid_pipes, minijail_run_static), the init    *)
(* supervisor and minijail_wait.                                           *)
(*                                                                         *)
(* Units.  A byte stream is a sequence of integer cells.  One cell stands  *)
(* for one scalar of the C layout: a char, an int, a pointer, the flags    *)
(* bit-field word, one field of a struct sock_filter.  sizeof is counted   *)
(* in cells.                                                               *)
(***************************************************************************)
EXTENDS Integers, Sequences, FiniteSets, TLC

VARIABLES
    j,          \* the host's struct minijail
    ncalls,     \* builder calls issued so far
    added,      \* the bindings the host has added, in the order of its calls
    hpc,        \* host program counter
    stream,     \* serialized buffer handed to minijail_unmarshal: [head, pad]
    avail,      \* |available| given to minijail_marshal
    mret,       \* return value of minijail_marshal
    written,    \* number of cells minijail_marshal stored into buf
    k,          \* the struct minijail filled by minijail_unmarshal
    uret,       \* return value of minijail_unmarshal
    ulen,       \* |length| given to minijail_unmarshal
    hiRead,     \* highest stream index minijail_unmarshal read
    umem,       \* minijail_unmarshal: blocks allocated (made) and freed, the label gone to
    mode,       \* launch path: "none", "enter", "run", "static"
    cj,         \* the child's copy of the struct minijail (after fork)
    cpc,        \* program counter of the process that heads for execve
    trace,      \* system calls issued by that process (and its forking parent)
    failed,     \* the name of the call that has failed, "" when none has
    enterEnd,   \* Len(trace) when minijail_enter returned, -1 before
    ipc,        \* init supervisor: program counter
    init_exitstatus, \* init supervisor: static int init_exitstatus
    signal_override, \* init supervisor: static int signal_override
    tstatus,    \* wait status of the target, -1 while it has none
    cstatus,    \* wait status of the first-generation child, -1 while it has none
    wret,       \* return value of minijail_wait or minijail_kill, -1 before
    sid,        \* whether the target leads a process group of its own (setsid)
    meta,       \* the lines written to the meta sink
    term,       \* whether a SIGTERM sent by minijail_kill is pending
    gpath,      \* minijail_get_path: the path argument
    gfs,        \* minijail_get_path: the files lstat and readlink see
    gbuf,       \* minijail_get_path: the caller's buffer
    gret,       \* minijail_get_path: the return value, -1 while it has not returned
    lcall,      \* the last call the host made on its Policy
    lret,       \* what that call returned
    prev,       \* the Policy before that call
    par,        \* the caller of minijail_run_pid_pipes: environment, descriptors, pipe
    kid,        \* the child of minijail_run_pid_pipes: its descriptors
    orphans,    \* processes the target has started (in init's pid namespace if any): live, reaped
    pipe,       \* policy pipe of minijail_to_fd and minijail_from_fd: cells, results
    usage,      \* init supervisor: struct rusage usage, as wait3 last filled it
    helper      \* preload helper in the target after execve: its Policy and system calls

vars == << j, ncalls, added, hpc, stream, avail, mret, written, k, uret, ulen, hiRead,
           umem, mode, cj, cpc, trace, failed, enterEnd,
           ipc, init_exitstatus, signal_override, tstatus, cstatus, wret, sid, meta, term,
           gpath, gfs, gbuf, gret, lcall, lret, prev, par, kid, orphans, pipe, usage, helper >>

marshalVars == << stream, avail, mret, written, k, uret, ulen, hiRead, umem >>
launchVars == << mode, cj, cpc, trace, failed, enterEnd >>
waitVars == << ipc, init_exitstatus, signal_override, tstatus, cstatus, wret, sid, meta, term >>
pathVars == << gpath, gfs, gbuf, gret >>
callVars == << lcall, lret, prev >>
kinVars == << kid, orphans, pipe, usage, helper >>

(***************************************************************************)
(* Bounds of the model.                                                    *)
(***************************************************************************)
\* builder calls the host issues on one Policy
MaxCalls == 3
\* NUL cells a tampered image may keep
MaxKeep == 2
\* cells of the buffer given to minijail_get_path
BufLen == 12
\* nested calls of minijail_get_path that are followed
MaxDepth == 4

(***************************************************************************)
(* Program constants.                                                      *)
(***************************************************************************)
USHRT_MAX == 65535
EINVAL == 22
ENOMEM == 12
EFAULT == 14
E2BIG == 7
SIGABRT == 6
SIGKILL == 9
SIGTERM == 15
SIGALRM == 14
SIGXCPU == 24
SIGSYS == 31
CAP_SETPCAP == 8
MINIJAIL_ERR_JAIL == 253
MINIJAIL_ERR_INIT == 254

RECURSIVE Pow2(_)
Pow2(n) == IF n = 0 THEN 1 ELSE 2 * Pow2(n - 1)

Min(a, b) == IF a < b THEN a ELSE b
Max(a, b) == IF a > b THEN a ELSE b

(***************************************************************************)
(* struct minijail.                                                        *)
(***************************************************************************)
\* the bit-fields of j->flags, in declaration order (bit i-1 of the word)
FlagNames == << "uid", "gid", "caps", "vfs", "pids", "net", "seccomp",
                "readonly", "usergroups", "ptrace", "no_new_privs",
                "seccomp_filter", "log_seccomp_filter", "chroot", "mount_tmp",
                "chdir", "stack_limit", "time_limit", "output_limit",
                "memory_limit", "meta_file" >>

\* the members of struct minijail, in declaration order
Fields == << "flags", "uid", "gid", "usergid", "user", "caps", "initpid",
             "filter_len", "binding_count", "chrootdir", "chdir",
             "filter_prog", "bindings_head", "bindings_tail", "stack_limit",
             "time_limit", "memory_limit", "output_limit", "meta_file" >>

\* sizeof(struct minijail), in cells
SizeofJ == Len(Fields)

\* struct sock_filter { code; jt; jf; k }: sizeof(struct sock_filter), in cells
SockFilterFields == << "code", "jt", "jf", "k" >>
SizeofSockFilter == Len(SockFilterFields)

\* sizeof(int), in cells
SizeofInt == Len(<< "int" >>)

FieldIndex(f) == CHOOSE i \in 1..Len(Fields) : Fields[i] = f

\* the flags bit-field as the integer word memcpy moves
FlagsWord(fs) ==
    LET S[i \in 0..Len(FlagNames)] ==
            IF i = 0 THEN 0
            ELSE S[i - 1] + (IF FlagNames[i] \in fs THEN Pow2(i - 1) ELSE 0)
    IN S[Len(FlagNames)]

\* the bit-fields read back from the word
FlagsOf(w) ==
    { FlagNames[i] : i \in { n \in 1..Len(FlagNames) : (w \div Pow2(n - 1)) % 2 = 1 } }

(***************************************************************************)
(* Pointers.  org says where the value stored in a pointer variable comes  *)
(* from: "null", "heap" (returned by an allocation of this process) or     *)
(* "stream" (copied out of a serialized buffer: a stale address of the     *)
(* sender).  val is the pointee of a heap pointer.                         *)
(***************************************************************************)
NULL == [org |-> "null", addr |-> 0, val |-> << >>]

\* an allocation made for member f: some non-zero address
Alloc(f, v) == [org |-> "heap", addr |-> FieldIndex(f), val |-> v]

\* calloc of the i-th struct binding
AllocBinding(i) == [org |-> "heap", addr |-> Len(Fields) + i, val |-> << >>]

\* an address found in a serialized buffer
Stale(a) == IF a = 0 THEN NULL ELSE [org |-> "stream", addr |-> a, val |-> << >>]

\* minijail_new: calloc(1, sizeof(struct minijail)).  bindings holds the nodes
\* of the list that bindings_head points to.
minijail_new ==
    [flags |-> {}, uid |-> 0, gid |-> 0, usergid |-> 0, user |-> NULL,
     caps |-> 0, initpid |-> 0, filter_len |-> 0, binding_count |-> 0,
     chrootdir |-> NULL, chdir |-> NULL, filter_prog |-> NULL,
     bindings_head |-> NULL, bindings_tail |-> NULL, bindings |-> << >>,
     stack_limit |-> 0, time_limit |-> 0, memory_limit |-> 0,
     output_limit |-> 0, meta_file |-> NULL]

\* what a builder call hands back: the struct and the return value
Ret(p, r) == [j |-> p, ret |-> r]

SetFlags(p, fs) == [p EXCEPT !.flags = @ \cup fs]

(***************************************************************************)
(* The builder (Minijail API).  r is the outcome of the library calls a    *)
(* mutator makes: "ok", "notfound" (getpwnam_r/getgrnam_r/fopen found      *)
(* nothing), "nobuf" (the malloc of the lookup buffer failed) or "nomem"   *)
(* (another allocation failed).                                            *)
(***************************************************************************)
minijail_change_uid(p, uid) ==
    Ret([SetFlags(p, {"uid"}) EXCEPT !.uid = uid], 0)

minijail_change_gid(p, gid) ==
    Ret([SetFlags(p, {"gid"}) EXCEPT !.gid = gid], 0)

minijail_change_user(p, user, pw_uid, pw_gid, r) ==
    IF r = "nobuf" THEN Ret(p, -ENOMEM)
    ELSE IF r = "notfound" THEN Ret(p, -1)
    ELSE LET p1 == minijail_change_uid(p, pw_uid).j
         IN IF r = "nomem" THEN Ret([p1 EXCEPT !.user = NULL], -ENOMEM)
            ELSE Ret([p1 EXCEPT !.user = Alloc("user", user), !.usergid = pw_gid], 0)

minijail_change_group(p, gr_gid, r) ==
    IF r = "nobuf" THEN Ret(p, -ENOMEM)
    ELSE IF r = "notfound" THEN Ret(p, -1)
    ELSE minijail_change_gid(p, gr_gid)

minijail_use_seccomp(p) == Ret(SetFlags(p, {"seccomp"}), 0)

minijail_no_new_privs(p) == Ret(SetFlags(p, {"no_new_privs"}), 0)

minijail_use_seccomp_filter(p) == Ret(SetFlags(p, {"seccomp_filter"}), 0)

minijail_log_seccomp_filter_failures(p) == Ret(SetFlags(p, {"log_seccomp_filter"}), 0)

minijail_use_caps(p, capmask) ==
    Ret([SetFlags(p, {"caps"}) EXCEPT !.caps = capmask], 0)

minijail_namespace_vfs(p) == Ret(SetFlags(p, {"vfs"}), 0)

minijail_namespace_pids(p) == Ret(SetFlags(p, {"vfs", "readonly", "pids"}), 0)

minijail_namespace_net(p) == Ret(SetFlags(p, {"net"}), 0)

minijail_remount_readonly(p) == Ret(SetFlags(p, {"vfs", "readonly"}), 0)

minijail_inherit_usergroups(p) == Ret(SetFlags(p, {"usergroups"}), 0)

minijail_disable_ptrace(p) == Ret(SetFlags(p, {"ptrace"}), 0)

minijail_enter_chroot(p, dir, r) ==
    IF p.chrootdir.addr # 0 THEN Ret(p, -EINVAL)
    ELSE IF r = "nomem" THEN Ret(p, -ENOMEM)
    ELSE Ret([SetFlags(p, {"chroot"}) EXCEPT !.chrootdir = Alloc("chrootdir", dir)], 0)

minijail_mount_tmp(p) == Ret(SetFlags(p, {"mount_tmp"}), 0)

minijail_chroot_chdir(p, dir, r) ==
    IF p.chrootdir.addr = 0 THEN Ret(p, -EINVAL)
    ELSE IF p.chdir.addr # 0 THEN Ret(p, -EINVAL)
    ELSE IF dir = << >> \/ dir[1] # 47 THEN Ret(p, -EINVAL)
    ELSE IF r = "nomem" THEN Ret(p, -ENOMEM)
    ELSE Ret([SetFlags(p, {"chdir"}) EXCEPT !.chdir = Alloc("chdir", dir)], 0)

LinkBinding_Prepend(p, b) ==
    LET node == AllocBinding(p.binding_count + 1)
    IN [p EXCEPT !.bindings = << b >> \o @,
                 !.bindings_head = node,
                 !.bindings_tail = IF p.bindings_tail.addr # 0 THEN @ ELSE node,
                 !.binding_count = @ + 1]

\* the list append of minijail_bind: through the tail when there is one
LinkBinding(p, b) ==
    LET node == AllocBinding(p.binding_count + 1)
    IN [p EXCEPT !.bindings = IF p.bindings_tail.addr # 0 THEN Append(@, b) ELSE << b >>,
                 !.bindings_head = IF p.bindings_tail.addr # 0 THEN @ ELSE node,
                 !.bindings_tail = node,
                 !.binding_count = @ + 1]

minijail_bind(p, src, dest, writeable, r) ==
    IF dest = << >> \/ dest[1] # 47 THEN Ret(p, -EINVAL)
    ELSE IF r = "nomem" THEN Ret(p, -ENOMEM)
    ELSE Ret(LinkBinding(minijail_namespace_vfs(p).j,
                         [src |-> src, dest |-> dest, writeable |-> writeable]), 0)

\* prog is the program compile_filter produced
minijail_parse_seccomp_filters(p, prog) ==
    Ret([p EXCEPT !.filter_len = Len(prog), !.filter_prog = Alloc("filter_prog", prog)], 0)

minijail_stack_limit(p, n) ==
    Ret([SetFlags(p, {"stack_limit"}) EXCEPT !.stack_limit = n], 0)

minijail_time_limit(p, n) ==
    Ret([SetFlags(p, {"time_limit"}) EXCEPT !.time_limit = n], 0)

minijail_output_limit(p, n) ==
    Ret([SetFlags(p, {"output_limit"}) EXCEPT !.output_limit = n], 0)

minijail_memory_limit(p, n) ==
    Ret([SetFlags(p, {"memory_limit"}) EXCEPT !.memory_limit = n], 0)

minijail_meta_file(p, r) ==
    LET p1 == SetFlags(p, {"meta_file"})
    IN IF r = "notfound" THEN Ret([p1 EXCEPT !.meta_file = NULL], -1)
       ELSE Ret([p1 EXCEPT !.meta_file = Alloc("meta_file", << >>)], 0)

\* one builder call c = [op, s, t, n, m, r] applied to p
Apply(p, c) ==
    CASE c.op = "change_uid" -> minijail_change_uid(p, c.n)
      [] c.op = "change_gid" -> minijail_change_gid(p, c.n)
      [] c.op = "change_user" -> minijail_change_user(p, c.s, c.n, c.m, c.r)
      [] c.op = "change_group" -> minijail_change_group(p, c.n, c.r)
      [] c.op = "use_seccomp" -> minijail_use_seccomp(p)
      [] c.op = "no_new_privs" -> minijail_no_new_privs(p)
      [] c.op = "use_seccomp_filter" -> minijail_use_seccomp_filter(p)
      [] c.op = "log_seccomp_filter_failures" -> minijail_log_seccomp_filter_failures(p)
      [] c.op = "use_caps" -> minijail_use_caps(p, c.n)
      [] c.op = "namespace_vfs" -> minijail_namespace_vfs(p)
      [] c.op = "namespace_pids" -> minijail_namespace_pids(p)
      [] c.op = "namespace_net" -> minijail_namespace_net(p)
      [] c.op = "remount_readonly" -> minijail_remount_readonly(p)
      [] c.op = "inherit_usergroups" -> minijail_inherit_usergroups(p)
      [] c.op = "disable_ptrace" -> minijail_disable_ptrace(p)
      [] c.op = "enter_chroot" -> minijail_enter_chroot(p, c.s, c.r)
      [] c.op = "mount_tmp" -> minijail_mount_tmp(p)
      [] c.op = "chroot_chdir" -> minijail_chroot_chdir(p, c.s, c.r)
      [] c.op = "bind" -> minijail_bind(p, c.s, c.t, c.n, c.r)
      [] c.op = "parse_seccomp_filters" -> minijail_parse_seccomp_filters(p, c.s)
      [] c.op = "stack_limit" -> minijail_stack_limit(p, c.n)
      [] c.op = "time_limit" -> minijail_time_limit(p, c.n)
      [] c.op = "output_limit" -> minijail_output_limit(p, c.n)
      [] c.op = "memory_limit" -> minijail_memory_limit(p, c.n)
      [] c.op = "meta_file" -> minijail_meta_file(p, c.r)

(***************************************************************************)
(* The marshaller.                                                         *)
(***************************************************************************)
\* a C string as it lies in memory: its chars and the terminating NUL
CStr(s) == s \o << 0 >>

\* the cells of a struct sock_filter array
RECURSIVE FilterCells(_)
FilterCells(prog) ==
    IF prog = << >> THEN << >> ELSE Head(prog) \o FilterCells(Tail(prog))

\* (char *)j, sizeof(*j): the struct as memcpy sees it, addresses included
FixedRecord(p) ==
    << FlagsWord(p.flags), p.uid, p.gid, p.usergid, p.user.addr, p.caps,
       p.initpid, p.filter_len, p.binding_count, p.chrootdir.addr,
       p.chdir.addr, p.filter_prog.addr, p.bindings_head.addr,
       p.bindings_tail.addr, p.stack_limit, p.time_limit, p.memory_limit,
       p.output_limit, p.meta_file.addr >>

\* the nodes reached from bindings_head by following next
BindingList(p) == IF p.bindings_head.addr = 0 THEN << >> ELSE p.bindings

\* buf is the memory written so far, starting at the caller's buf
marshal_state_init(available) == [available |-> available, total |-> 0, buf |-> << >>]

\* marshal_append without the MIN: it copies |length| cells whatever is available
marshal_append_Unbounded(state, src, length) ==
    LET copy_len == length
    IN [available |-> state.available - copy_len,
        total |-> state.total + length,
        buf |-> state.buf \o SubSeq(src, 1, copy_len)]

marshal_append(state, src, length) ==
    LET copy_len == Min(state.available, length)
    IN [available |-> state.available - copy_len,
        total |-> state.total + length,
        buf |-> state.buf \o SubSeq(src, 1, copy_len)]

RECURSIVE MarshalBindings(_, _)
MarshalBindings(state, bs) ==
    IF bs = << >> THEN state
    ELSE LET b == Head(bs)
             s1 == marshal_append(state, CStr(b.src), Len(b.src) + 1)
             s2 == marshal_append(s1, CStr(b.dest), Len(b.dest) + 1)
             s3 == marshal_append(s2, << b.writeable >>, SizeofInt)
         IN MarshalBindings(s3, Tail(bs))

\* a marshaller that never writes the filter section
MarshalsFilter_Never(p) == FALSE

\* whether minijail_marshal_helper writes the filter section
MarshalsFilter(p) == "seccomp_filter" \in p.flags /\ p.filter_prog.addr # 0

minijail_marshal_helper(state, p) ==
    LET s0 == marshal_append(state, FixedRecord(p), SizeofJ)
        s1 == IF p.user.addr # 0
              THEN marshal_append(s0, CStr(p.user.val), Len(p.user.val) + 1) ELSE s0
        s2 == IF p.chrootdir.addr # 0
              THEN marshal_append(s1, CStr(p.chrootdir.val), Len(p.chrootdir.val) + 1) ELSE s1
        s3 == IF p.chdir.addr # 0
              THEN marshal_append(s2, CStr(p.chdir.val), Len(p.chdir.val) + 1) ELSE s2
        s4 == IF MarshalsFilter(p)
              THEN marshal_append(s3, FilterCells(p.filter_prog.val),
                                  Len(p.filter_prog.val) * SizeofSockFilter)
              ELSE s3
    IN MarshalBindings(s4, BindingList(p))

minijail_size(p) == minijail_marshal_helper(marshal_state_init(0), p).total

\* ret is the function's value, buf what it stored
minijail_marshal(p, available) ==
    LET state == minijail_marshal_helper(marshal_state_init(available), p)
    IN [ret |-> IF state.total > available THEN 1 ELSE 0, buf |-> state.buf]

(***************************************************************************)
(* The unmarshaller.  A serialized buffer is [head, pad]: the cells of     *)
(* head followed by pad cells of value 0.  A cursor u carries the struct   *)
(* being filled (j), the cells consumed (pos), the length left (len), the  *)
(* highest index read (hi), the blocks handed to free (freed), the number  *)
(* of allocations made (nalloc), the allocation that fails (oom, 0 for     *)
(* none) and the blocks allocated that the struct has been given (made).   *)
(***************************************************************************)
SLen(s) == Len(s.head) + s.pad

Cell(s, i) == IF i <= Len(s.head) THEN s.head[i] ELSE 0

CellsAt(s, p, n) == [i \in 1..n |-> Cell(s, p + i - 1)]

\* strnlen(buf + pos, n).  The cells after head are 0, so the scan never
\* passes the first of them.
Strnlen(s, pos, n) ==
    LET m == Min(n, Max(0, Len(s.head) - pos) + 1)
        nul == { d \in 0..(m - 1) : Cell(s, pos + 1 + d) = 0 }
    IN IF nul = {} THEN n ELSE CHOOSE d \in nul : \A e \in nul : d <= e

\* consumebytes without the length > *buflength test
consumebytes_Unchecked(length, u) ==
    [p |-> u.pos + 1, u |-> [u EXCEPT !.pos = @ + length, !.len = @ - length]]

\* p is the index of the first cell handed back, 0 for NULL
consumebytes(length, u) ==
    IF length > u.len THEN [p |-> 0, u |-> u]
    ELSE [p |-> u.pos + 1, u |-> [u EXCEPT !.pos = @ + length, !.len = @ - length]]

consumestr(s, u) ==
    LET len == Strnlen(s, u.pos, u.len)
        u1 == [u EXCEPT !.hi = Max(@, u.pos + Min(len + 1, u.len))]
    IN IF len = u.len THEN [p |-> 0, u |-> u1]
       ELSE consumebytes(len + 1, u1)

\* the string that starts at index p
StrAt(s, p) == CellsAt(s, p, Strnlen(s, p - 1, SLen(s) + 1))

\* an allocation: fails when it is the oom-th one
Allocates(u) == [u EXCEPT !.nalloc = @ + 1]
AllocFails(u) == u.oom = u.nalloc + 1

\* free(j->f) when j->f is not NULL
FreeField(u, f) ==
    IF u.j[f].addr # 0 THEN [u EXCEPT !.freed = @ \cup { [f |-> f, org |-> u.j[f].org] }]
    ELSE u

HasFilter(p) == "seccomp_filter" \in p.flags /\ p.filter_len > 0

\* goto label
Goto(u, label) == [u EXCEPT !.to = label]

\* one optional string member f: consumestr, strdup; on failure goto bad
UnmarshalString(s, u, f, bad) ==
    IF u.to # "none" \/ u.j[f].addr = 0 THEN u
    ELSE LET c == consumestr(s, u)
             u1 == Allocates(c.u)
         IN IF c.p = 0 THEN Goto(c.u, bad)
            ELSE IF AllocFails(c.u) THEN Goto([u1 EXCEPT !.j[f] = NULL], bad)
            ELSE [u1 EXCEPT !.j[f] = Alloc(f, StrAt(s, c.p)),
                            !.made = @ \cup { [f |-> f, org |-> "heap"] }]

\* the ninstrs > USHRT_MAX test (SIZE_MAX / sizeof(struct sock_filter) is larger)
TooManyInstrs(ninstrs) == ninstrs > USHRT_MAX

UnmarshalFilter(s, u) ==
    IF u.to # "none" \/ ~HasFilter(u.j) THEN u
    ELSE LET ninstrs == u.j.filter_len
             program_len == ninstrs * SizeofSockFilter
             c == consumebytes(program_len, u)
         IN IF TooManyInstrs(ninstrs) \/ c.p = 0 THEN Goto(u, "bad_filters")
            ELSE IF AllocFails(c.u) \/ AllocFails(Allocates(c.u)) THEN Goto(c.u, "segv")
            ELSE [c.u EXCEPT !.hi = Max(@, c.p + program_len - 1),
                             !.nalloc = @ + 2,
                             !.made = @ \cup { [f |-> "filter_prog", org |-> "heap"] },
                             !.j.filter_prog =
                                 Alloc("filter_prog",
                                       [n \in 1..ninstrs |->
                                           CellsAt(s, c.p + (n - 1) * SizeofSockFilter,
                                                   SizeofSockFilter)])]

\* if (j->meta_file) j->meta_file = NULL
UnmarshalMeta(u) ==
    IF u.to # "none" THEN u ELSE [u EXCEPT !.j.meta_file = NULL]

\* the loop over the bindings: i of count are done
RECURSIVE UnmarshalBindings(_, _, _, _)
UnmarshalBindings(s, u, i, count) ==
    IF u.to # "none" THEN u
    ELSE IF i >= count THEN [u EXCEPT !.ret = 0]
    ELSE LET a == consumestr(s, u)
             b == consumestr(s, a.u)
             c == consumebytes(SizeofInt, b.u)
             u1 == Allocates([c.u EXCEPT !.hi = Max(@, c.p)])
             r == minijail_bind(c.u.j, StrAt(s, a.p), StrAt(s, b.p), Cell(s, c.p),
                                IF AllocFails(c.u) THEN "nomem" ELSE "ok")
         IN UnmarshalBindings(s,
                CASE a.p = 0 -> Goto(a.u, "bad_bindings")
                  [] a.p # 0 /\ b.p = 0 -> Goto(b.u, "bad_bindings")
                  [] a.p # 0 /\ b.p # 0 /\ c.p = 0 -> Goto(c.u, "bad_bindings")
                  [] OTHER -> IF r.ret # 0 THEN Goto([u1 EXCEPT !.j = r.j], "bad_bindings")
                              ELSE [u1 EXCEPT !.j = r.j,
                                              !.made = @ \cup { [f |-> "bindings_head",
                                                                  org |-> "heap"] }],
                i + 1, count)

\* the labels at the end of minijail_unmarshal, each falling through to the next
Labels == << "bad_bindings", "bad_filters", "bad_chdir", "bad_chrootdir", "clear_pointers" >>

LabelIndex(l) == CHOOSE i \in 1..Len(Labels) : Labels[i] = l

\* whether the code at label l runs after goto u.to ("segv": the process has
\* stored through the NULL an unchecked malloc gave it)
Runs(u, l) == u.to \notin {"none", "segv"} /\ LabelIndex(u.to) <= LabelIndex(l)

BadBindings(u) ==
    IF Runs(u, "bad_bindings") /\ HasFilter(u.j)
    THEN [u EXCEPT !.freed = @ \cup { [f |-> "filter_prog", org |-> u.j.filter_prog.org] }]
    ELSE u

BadFilters(u) == IF Runs(u, "bad_filters") THEN FreeField(u, "chrootdir") ELSE u

BadChdir(u) == IF Runs(u, "bad_chdir") THEN FreeField(u, "chdir") ELSE u

BadChrootdir(u) == IF Runs(u, "bad_chrootdir") THEN FreeField(u, "user") ELSE u

ClearPointers(u) ==
    IF Runs(u, "clear_pointers")
    THEN [u EXCEPT !.j.user = NULL, !.j.chrootdir = NULL, !.j.chdir = NULL]
    ELSE u

\* memcpy((void *)j, serialized, sizeof(*j)): every member as found in the buffer
CopyFixed(s) ==
    LET c == CellsAt(s, 1, SizeofJ)
        at(f) == c[FieldIndex(f)]
    IN [flags |-> FlagsOf(at("flags")), uid |-> at("uid"), gid |-> at("gid"),
        usergid |-> at("usergid"), user |-> Stale(at("user")), caps |-> at("caps"),
        initpid |-> at("initpid"), filter_len |-> at("filter_len"),
        binding_count |-> at("binding_count"),
        chrootdir |-> Stale(at("chrootdir")), chdir |-> Stale(at("chdir")),
        filter_prog |-> Stale(at("filter_prog")),
        bindings_head |-> Stale(at("bindings_head")),
        bindings_tail |-> Stale(at("bindings_tail")), bindings |-> << >>,
        stack_limit |-> at("stack_limit"), time_limit |-> at("time_limit"),
        memory_limit |-> at("memory_limit"), output_limit |-> at("output_limit"),
        meta_file |-> Stale(at("meta_file"))]

\* the memcpy without the three assignments after it
DropListAndFilter_Keep(p) == p

\* the three assignments after the memcpy
DropListAndFilter(p) ==
    [p EXCEPT !.bindings_head = NULL, !.bindings_tail = NULL, !.filter_prog = NULL]

\* whether the buffer is too short for the fixed record
TooShort(length) == length < SizeofJ

\* the binding count is taken, then zeroed, before the loop
ZeroBindingCount(u) == IF u.to # "none" THEN u ELSE [u EXCEPT !.j.binding_count = 0]

\* minijail_unmarshal(dest, serialized, length); oom names the failing allocation
minijail_unmarshal(dest, s, length, oom) ==
    LET u0 == [j |-> dest, pos |-> 0, len |-> length, hi |-> 0, ret |-> -EINVAL,
               freed |-> {}, made |-> {}, nalloc |-> 0, oom |-> oom, to |-> "none"]
        u1 == [u0 EXCEPT !.j = DropListAndFilter(CopyFixed(s)),
                         !.pos = SizeofJ, !.len = length - SizeofJ, !.hi = SizeofJ]
        u2 == UnmarshalString(s, u1, "user", "clear_pointers")
        u3 == UnmarshalString(s, u2, "chrootdir", "bad_chrootdir")
        u4 == UnmarshalString(s, u3, "chdir", "bad_chdir")
        u5 == UnmarshalMeta(UnmarshalFilter(s, u4))
        u6 == UnmarshalBindings(s, ZeroBindingCount(u5), 0, u5.j.binding_count)
    IN IF TooShort(length) THEN u0
       ELSE ClearPointers(BadChrootdir(BadChdir(BadFilters(BadBindings(u6)))))

(***************************************************************************)
(* Jail entry.  The system and library calls a routine makes are listed in *)
(* the order of the code, as records [op, arg, src, dest, fatal]: src and   *)
(* dest are the paths given to a mount, chroot or chdir, and fatal says    *)
(* that the code examines the call's result and ends the process when it   *)
(* failed.                                                                 *)
(***************************************************************************)
\* a call on paths whose failure the code answers with die, pdie or a fatal return
PathOp(name, arg, src, dest) ==
    [op |-> name, arg |-> arg, src |-> src, dest |-> dest, fatal |-> TRUE]

\* such a call without paths
Op(name, arg) == PathOp(name, arg, << >>, << >>)

\* a call whose result the code does not examine
Ignored(o) == [o EXCEPT !.fatal = FALSE]

\* die, pdie: the message is logged and the process aborts
die == "dead"

\* minijail_preenter: the flags meant for the parent are stripped
minijail_preenter_KeepPids(p) == [p EXCEPT !.flags = @ \ {"vfs", "readonly", "chroot"}]

minijail_preenter(p) == [p EXCEPT !.flags = @ \ {"vfs", "readonly", "pids", "chroot"}]

minijail_preexec_KeepSeccomp(p) ==
    [p EXCEPT !.user = NULL,
              !.flags = @ \cap {"vfs", "readonly", "stack_limit", "time_limit",
                                "memory_limit", "output_limit", "meta_file", "seccomp"}]

\* minijail_preexec: the user is freed and all flags zeroed but those kept
minijail_preexec(p) ==
    [p EXCEPT !.user = NULL,
              !.flags = @ \cap {"vfs", "readonly", "stack_limit", "time_limit",
                                "memory_limit", "output_limit", "meta_file"}]

\* "/", "/tmp", "/proc"
PathRoot == << 47 >>
PathTmp == << 47, 116, 109, 112 >>
PathProc == << 47, 112, 114, 111, 99 >>

\* bind_one on the i-th node of the list of p, recursing through next; dest
\* is asprintf("%s%s", j->chrootdir, b->dest)
RECURSIVE bind_one(_, _)
bind_one(p, i) ==
    LET b == BindingList(p)[i]
        dest == p.chrootdir.val \o b.dest
    IN << Op("asprintf", i), PathOp("mount_bind", i, b.src, dest) >>
           \o (IF b.writeable = 0 THEN << PathOp("mount_bind_ro", i, b.src, dest) >>
               ELSE << >>)
           \o (IF i < Len(BindingList(p)) THEN bind_one(p, i + 1) ELSE << >>)

\* enter_chroot that changes the root before it mounts the bindings
enter_chroot_ChrootFirst(p) ==
    << PathOp("chroot", 0, << >>, p.chrootdir.val),
       PathOp("chdir", 0, << >>, IF p.chdir.addr # 0 THEN p.chdir.val ELSE PathRoot) >>
        \o (IF p.bindings_head.addr # 0 THEN bind_one(p, 1) ELSE << >>)

enter_chroot(p) ==
    (IF p.bindings_head.addr # 0 THEN bind_one(p, 1) ELSE << >>)
        \o << PathOp("chroot", 0, << >>, p.chrootdir.val),
              PathOp("chdir", 0, << >>, IF p.chdir.addr # 0 THEN p.chdir.val ELSE PathRoot) >>

mount_tmp == << PathOp("mount_tmp", 0, << >>, PathTmp) >>

\* procPath is asprintf("%s/proc", j->chrootdir ? j->chrootdir : "")
remount_readonly(p) ==
    << Op("asprintf", 0), Ignored(Op("umount_binfmt_misc", 0)),
       PathOp("umount_proc", 0, << >>, PathProc),
       PathOp("mount_proc", 0, << >>, p.chrootdir.val \o PathProc) >>

\* drop_ugid with a setresuid whose result is not examined
drop_ugid_Unchecked(p) ==
    (IF "usergroups" \in p.flags THEN << Op("initgroups", 0) >>
     ELSE IF p.uid # 0 \/ p.gid # 0 THEN << Op("setgroups", 0) >> ELSE << >>)
        \o (IF "gid" \in p.flags THEN << Op("setresgid", p.gid) >> ELSE << >>)
        \o (IF "uid" \in p.flags THEN << Ignored(Op("setresuid", p.uid)) >> ELSE << >>)

drop_ugid(p) ==
    (IF "usergroups" \in p.flags THEN << Op("initgroups", 0) >>
     ELSE IF p.uid # 0 \/ p.gid # 0 THEN << Op("setgroups", 0) >> ELSE << >>)
        \o (IF "gid" \in p.flags THEN << Op("setresgid", p.gid) >> ELSE << >>)
        \o (IF "uid" \in p.flags THEN << Op("setresuid", p.uid) >> ELSE << >>)

\* the last valid capability, as run_cap_valid reads it from
\* /proc/sys/kernel/cap_last_cap
last_cap == 8

\* j->caps & (one << i)
CapBit(caps, i) == (caps \div Pow2(i)) % 2 = 1

\* cap_set_flag(.., CAP_SET) on the effective, permitted and inheritable sets
CapSetFlags(i) ==
    << Op("cap_set_flag", i), Op("cap_set_flag", i), Op("cap_set_flag", i) >>

\* cap_set_flag(.., CAP_CLEAR) on the effective, permitted and inheritable sets
CapClearFlags(i) ==
    << Op("cap_clear_one", i), Op("cap_clear_one", i), Op("cap_clear_one", i) >>

\* the first loop of drop_caps, from capability i on: CAP_SETPCAP and the
\* capabilities of the mask are raised
RECURSIVE RaiseCaps(_, _)
RaiseCaps(caps, i) ==
    IF i > last_cap THEN << >>
    ELSE (IF i = CAP_SETPCAP \/ CapBit(caps, i) THEN CapSetFlags(i) ELSE << >>)
             \o RaiseCaps(caps, i + 1)

\* the second loop of drop_caps, from capability i on: the capabilities that
\* are not in the mask leave the bounding set
RECURSIVE DropBounding(_, _)
DropBounding(caps, i) ==
    IF i > last_cap THEN << >>
    ELSE (IF CapBit(caps, i) THEN << >> ELSE << Op("prctl_capbset_drop", i) >>)
             \o DropBounding(caps, i + 1)

\* drop_caps that takes CAP_SETPCAP away before it drops the bounding set
drop_caps_StripFirst(p) ==
    << Op("cap_get_proc", 0), Op("cap_clear_flag", 0), Op("cap_clear_flag", 0),
       Op("cap_clear_flag", 0), Op("cap_last_cap", 0) >>
        \o RaiseCaps(p.caps, 0)
        \o << Op("capset", 0) >>
        \o (IF ~CapBit(p.caps, CAP_SETPCAP) THEN CapClearFlags(CAP_SETPCAP) ELSE << >>)
        \o << Op("capset", 1) >>
        \o DropBounding(p.caps, 0)

drop_caps(p) ==
    << Op("cap_get_proc", 0), Op("cap_clear_flag", 0), Op("cap_clear_flag", 0),
       Op("cap_clear_flag", 0), Op("cap_last_cap", 0) >>
        \o RaiseCaps(p.caps, 0)
        \o << Op("capset", 0) >>
        \o DropBounding(p.caps, 0)
        \o (IF ~CapBit(p.caps, CAP_SETPCAP) THEN CapClearFlags(CAP_SETPCAP) ELSE << >>)
        \o << Op("capset", 1) >>

set_seccomp_filter(p) ==
    (IF "no_new_privs" \in p.flags THEN << Op("prctl_no_new_privs", 0) >> ELSE << >>)
        \o (IF {"seccomp_filter", "log_seccomp_filter"} \subseteq p.flags
            THEN << Op("install_sigsys_handler", 0) >> ELSE << >>)
        \o (IF "seccomp_filter" \in p.flags
            THEN << Op("prctl_seccomp_filter", 0) >> ELSE << >>)

\* the privilege drop of minijail_enter with the two branches exchanged
DropPrivileges_Swapped(p) ==
    LET drop == drop_ugid(p) \o (IF "caps" \in p.flags THEN drop_caps(p) ELSE << >>)
    IN IF "no_new_privs" \in p.flags THEN set_seccomp_filter(p) \o drop
       ELSE drop \o set_seccomp_filter(p)

\* the if (j->flags.no_new_privs) ... else ... of minijail_enter
DropPrivileges(p) ==
    LET drop == drop_ugid(p) \o (IF "caps" \in p.flags THEN drop_caps(p) ELSE << >>)
    IN IF "no_new_privs" \in p.flags THEN drop \o set_seccomp_filter(p)
       ELSE set_seccomp_filter(p) \o drop

\* whether minijail_enter dies before its first call
EnterRefuses(p) ==
    \/ "pids" \in p.flags
    \/ "usergroups" \in p.flags /\ p.user.addr = 0

\* minijail_enter with the identity dropped before the capabilities are kept
minijail_enter_LateKeepcaps(p) ==
    (IF "vfs" \in p.flags THEN << Op("unshare_newns", 0) >> ELSE << >>)
        \o (IF "net" \in p.flags THEN << Op("unshare_newnet", 0) >> ELSE << >>)
        \o (IF "chroot" \in p.flags THEN enter_chroot(p) ELSE << >>)
        \o (IF {"chroot", "mount_tmp"} \subseteq p.flags THEN mount_tmp ELSE << >>)
        \o (IF "readonly" \in p.flags THEN remount_readonly(p) ELSE << >>)
        \o DropPrivileges(p)
        \o (IF "caps" \in p.flags
            THEN << Op("prctl_keepcaps", 0), Op("prctl_securebits", 0) >> ELSE << >>)
        \o (IF "seccomp" \in p.flags THEN << Op("prctl_seccomp_strict", 0) >> ELSE << >>)

\* the calls of minijail_enter
minijail_enter(p) ==
    (IF "vfs" \in p.flags THEN << Op("unshare_newns", 0) >> ELSE << >>)
        \o (IF "net" \in p.flags THEN << Op("unshare_newnet", 0) >> ELSE << >>)
        \o (IF "chroot" \in p.flags THEN enter_chroot(p) ELSE << >>)
        \o (IF {"chroot", "mount_tmp"} \subseteq p.flags THEN mount_tmp ELSE << >>)
        \o (IF "readonly" \in p.flags THEN remount_readonly(p) ELSE << >>)
        \o (IF "caps" \in p.flags
            THEN << Op("prctl_keepcaps", 0), Op("prctl_securebits", 0) >> ELSE << >>)
        \o DropPrivileges(p)
        \o (IF "seccomp" \in p.flags THEN << Op("prctl_seccomp_strict", 0) >> ELSE << >>)

\* the largest int
INT_MAX == 2147483647

\* An int has 32 bits. The sums and products of setup_limits and init can
\* leave that range, so they are held exactly as two limbs, hi * 2^16 + lo.
Limb == Pow2(16)
Limbs(n) == [hi |-> n \div Limb, lo |-> n % Limb]
AddSmall(x, c) == [hi |-> x.hi + (x.lo + c) \div Limb, lo |-> (x.lo + c) % Limb]
MulSmall(x, c) == [hi |-> x.hi * c + (x.lo * c) \div Limb, lo |-> (x.lo * c) % Limb]
DivSmall(x, c) == (x.hi \div c) * Limb + ((x.hi % c) * Limb + x.lo) \div c

\* whether x is a value of int
FitsInt(x) == x.hi < Pow2(15)

\* the low 32 bits of x read as an int
Int32(x) ==
    LET h == x.hi % Limb
    IN (IF h < Pow2(15) THEN h ELSE h - Limb) * Limb + x.lo

\* a / c of C for an int a and c > 0: the quotient is truncated towards zero
CDiv(a, c) ==
    IF a >= 0 THEN a \div c
    ELSE IF a > -c THEN 0
    ELSE -(((-(a + c)) \div c) + 1)

\* x / c where the int expression x has overflowed when it does not fit: the
\* behaviour is undefined, and a build either wraps x to 32 bits or goes on
\* with the exact value in a wider register (wide)
IntDiv(x, c, wide) ==
    IF FitsInt(x) \/ wide THEN DivSmall(x, c) ELSE CDiv(Int32(x), c)

\* limit.rlim_cur = (999 + j->time_limit) / 1000 and limit.rlim_max =
\* limit.rlim_cur + 1; a negative number stands for its conversion to rlim_t
CpuLimit(t, wide) ==
    LET cur == IntDiv(AddSmall(Limbs(t), 999), 1000, wide)
    IN [cur |-> cur, max |-> cur + 1]

\* j->time_limit * 1000 as ualarm receives it: the 32 bits of a useconds_t,
\* which are the same whether an overflowing product wraps or not
AlarmMicros(t) == Int32(MulSmall(Limbs(t), 1000))

\* the alarm of init: signal(SIGALRM, timeout) and alarm((j->time_limit +
\* 1999) / 1000)
init_alarm(p, wide) ==
    IF "time_limit" \in p.flags
    THEN << Ignored(Op("signal_alrm", 0)),
            Ignored(Op("alarm", IntDiv(AddSmall(Limbs(p.time_limit), 1999), 1000, wide))) >>
    ELSE << >>

\* setup_limits with the hard limit of RLIMIT_CPU equal to the soft one
setup_limits_NoSlack(p, wide) ==
    (IF "memory_limit" \in p.flags THEN << Op("setrlimit_as", p.memory_limit) >> ELSE << >>)
        \o (IF "output_limit" \in p.flags
            THEN << Op("setrlimit_fsize", p.output_limit), Op("setrlimit_core", 0) >>
            ELSE << >>)
        \o (IF "stack_limit" \in p.flags
            THEN << Op("setrlimit_stack", p.stack_limit) >> ELSE << >>)
        \o (IF "time_limit" \in p.flags
            THEN << Op("setrlimit_cpu", [CpuLimit(p.time_limit, wide) EXCEPT !.max = @ - 1]),
                    Ignored(Op("ualarm", AlarmMicros(p.time_limit))) >>
            ELSE << >>)

setup_limits(p, wide) ==
    (IF "memory_limit" \in p.flags THEN << Op("setrlimit_as", p.memory_limit) >> ELSE << >>)
        \o (IF "output_limit" \in p.flags
            THEN << Op("setrlimit_fsize", p.output_limit), Op("setrlimit_core", 0) >>
            ELSE << >>)
        \o (IF "stack_limit" \in p.flags
            THEN << Op("setrlimit_stack", p.stack_limit) >> ELSE << >>)
        \o (IF "time_limit" \in p.flags
            THEN << Op("setrlimit_cpu", CpuLimit(p.time_limit, wide)),
                    Ignored(Op("ualarm", AlarmMicros(p.time_limit))) >>
            ELSE << >>)

\* the calls ops with the f-th one failing (f = 0: none fails): the calls
\* issued, whether the process lives on, and the name of the failed call
RunOps(ops, f) ==
    IF f = 0 THEN [issued |-> ops, alive |-> TRUE, failed |-> ""]
    ELSE IF ops[f].fatal THEN [issued |-> SubSeq(ops, 1, f), alive |-> FALSE,
                               failed |-> ops[f].op]
    ELSE [issued |-> ops, alive |-> TRUE, failed |-> ops[f].op]

(***************************************************************************)
(* The host: it builds a Policy, then marshals it and has the image        *)
(* unmarshalled, or launches it.                                           *)
(***************************************************************************)
Call(op, s, t, n, m, r) == [op |-> op, s |-> s, t |-> t, n |-> n, m |-> m, r |-> r]

\* "/j", "/w", "u": the strings the host passes
PathJail == << 47, 106 >>
PathWork == << 47, 119 >>
UserName == << 117 >>

\* the bindings the host may add: (src, dest, writeable)
BindRO == Call("bind", << 47, 115 >>, << 47, 97 >>, 0, 0, "ok")
BindRW == Call("bind", << 47, 116 >>, << 47, 98 >>, 1, 0, "ok")

\* the programs compile_filter may produce
ProgOne == << << 6, 0, 0, 1 >> >>
ProgTwo == << << 21, 0, 1, 59 >>, << 6, 0, 0, 0 >> >>

\* the builder calls of a host that exercises the marshaller
MarshalCalls ==
    << Call("change_user", UserName, << >>, 1000, 1000, "ok"),
       Call("enter_chroot", PathJail, << >>, 0, 0, "ok"),
       Call("chroot_chdir", PathWork, << >>, 0, 0, "ok"),
       BindRO, BindRW,
       Call("use_seccomp_filter", << >>, << >>, 0, 0, "ok"),
       Call("parse_seccomp_filters", ProgOne, << >>, 0, 0, "ok"),
       Call("parse_seccomp_filters", ProgTwo, << >>, 0, 0, "ok"),
       Call("namespace_pids", << >>, << >>, 0, 0, "ok"),
       Call("time_limit", << >>, << >>, 1000, 0, "ok"),
       Call("meta_file", << >>, << >>, 0, 0, "ok") >>

\* an environment variable: unset, or set to val
EnvUnset == [set |-> FALSE, val |-> << >>]
EnvSet(v) == [set |-> TRUE, val |-> v]

\* "p" stands for PRELOADPATH
PreloadPath == << 112 >>

\* the values LD_PRELOAD may have when the host calls: unset, "", "a"
EnvValues == { EnvUnset, EnvSet(<< >>), EnvSet(<< 97 >>) }

\* the parent before the call: LD_PRELOAD (env) and the descriptor variable
\* (fdenv), the open descriptors, the two ends (read, write) of each pipe, the
\* streams asked for, the cells written to the policy pipe, the descriptors
\* and the pid handed back, and the return value
ParentIdle ==
    [pc |-> "idle", old |-> EnvUnset, env |-> EnvUnset, fdenv |-> EnvUnset, open |-> {},
     pipe_fds |-> << >>, stdin |-> << >>, stdout |-> << >>, stderr |-> << >>,
     want |-> {}, sent |-> << >>, out |-> [n \in {"stdin", "stdout", "stderr"} |-> -1],
     pid |-> 0, ret |-> 0]

\* the child of minijail_run_pid_pipes before the fork: where it is, the
\* descriptors it has open, and what its descriptors 0, 1 and 2 refer to
\* (-1: what the parent's did); initopen are the descriptors of init
\* the preload helper has not run
HelperIdle == [pc |-> "none", j |-> minijail_new, trace |-> << >>]

\* struct rusage usage of init before the first wait3
RusageNone == [ru_utime |-> [tv_sec |-> 0, tv_usec |-> 0], ru_maxrss |-> 0]

\* no minijail_to_fd yet: nothing in the pipe
PipeIdle == [pc |-> "none", ret |-> 0, cells |-> << >>, oom |-> 0]

KidIdle == [pc |-> "none", open |-> {}, std |-> << -1, -1, -1 >>, initopen |-> {}]

Init ==
    /\ j = minijail_new
    /\ ncalls = 0
    /\ added = << >>
    /\ hpc = "build"
    /\ stream = [head |-> << >>, pad |-> 0]
    /\ avail = 0
    /\ mret = 0
    /\ written = 0
    /\ k = minijail_new
    /\ uret = 0
    /\ ulen = 0
    /\ hiRead = 0
    /\ umem = [made |-> {}, freed |-> {}, to |-> "none"]
    /\ mode = "none"
    /\ cj = minijail_new
    /\ cpc = "none"
    /\ trace = << >>
    /\ failed = ""
    /\ enterEnd = -1
    /\ ipc = "none"
    /\ init_exitstatus = 0
    /\ signal_override = 0
    /\ tstatus = -1
    /\ cstatus = -1
    /\ wret = -1
    /\ sid = FALSE
    /\ meta = << >>
    /\ term = FALSE
    /\ gpath = << >>
    /\ gfs = {}
    /\ gbuf = << >>
    /\ gret = -1
    /\ lcall = Call("new", << >>, << >>, 0, 0, "ok")
    /\ lret = 0
    /\ prev = minijail_new
    /\ par = ParentIdle
    /\ kid = KidIdle
    /\ orphans = [live |-> 0, reaped |-> 0]
    /\ pipe = PipeIdle
    /\ usage = RusageNone
    /\ helper = HelperIdle

\* one builder call out of calls
Build(calls) ==
    /\ hpc = "build"
    /\ ncalls < MaxCalls
    /\ \E i \in 1..Len(calls) :
          LET c == calls[i]
              r == Apply(j, c)
          IN /\ j' = r.j
             /\ added' = IF c.op = "bind" /\ r.ret = 0
                          THEN Append(added, [src |-> c.s, dest |-> c.t, writeable |-> c.n])
                          ELSE added
    /\ ncalls' = ncalls + 1
    /\ UNCHANGED << kinVars, par, pathVars, callVars, hpc, marshalVars, launchVars, waitVars >>

\* minijail_marshal(j, buf, cap) into a buffer of cap cells
Marshal ==
    /\ hpc = "build"
    /\ \E cap \in 0..(minijail_size(j) + 1) :
          LET m == minijail_marshal(j, cap)
          IN /\ stream' = [head |-> m.buf, pad |-> 0]
             /\ avail' = cap
             /\ mret' = m.ret
             /\ written' = Len(m.buf)
    /\ hpc' = "marshalled"
    /\ UNCHANGED << kinVars, par, pathVars, callVars, j, ncalls, added, k, uret, ulen, hiRead, umem, launchVars, waitVars >>

\* the number of NUL cells among cells SizeofJ+1 .. n of the buffer
NulsAfterFixed(s, n) ==
    Cardinality({ i \in (SizeofJ + 1)..Min(n, Len(s.head)) : s.head[i] = 0 })
        + Max(0, n - Max(SizeofJ, Len(s.head)))

\* the image with one of its parts overwritten on its way to the receiver:
\* "nonul" leaves the first keep NUL cells after the fixed record and overwrites
\* the later ones, "biglen" announces USHRT_MAX + 1 instructions and supplies
\* that many, "shortfilter" announces more instructions than the buffer holds
Tampered(s, kind, keep) ==
    CASE kind = "nonul" ->
            [s EXCEPT !.head = [i \in 1..Len(s.head) |->
                                   IF /\ i > SizeofJ
                                      /\ s.head[i] = 0
                                      /\ NulsAfterFixed(s, i) > keep
                                   THEN 1 ELSE s.head[i]]]
      [] kind = "biglen" ->
            [head |-> [s.head EXCEPT ![FieldIndex("filter_len")] = USHRT_MAX + 1],
             pad |-> (USHRT_MAX + 1) * SizeofSockFilter]
      [] kind = "shortfilter" ->
            [s EXCEPT !.head[FieldIndex("filter_len")] =
                          ((Len(s.head) - SizeofJ) \div SizeofSockFilter) + 1]

Tamper ==
    /\ hpc = "marshalled"
    /\ mret = 0
    /\ avail = written
    /\ \E kind \in {"nonul", "biglen", "shortfilter"} :
          \E keep \in (IF kind = "nonul" THEN 0..MaxKeep ELSE {0}) :
             stream' = Tampered(stream, kind, keep)
    /\ hpc' = "tampered"
    /\ UNCHANGED << kinVars, par, pathVars, callVars, j, ncalls, added, avail, mret, written, k, uret, ulen, hiRead, umem,
                    launchVars, waitVars >>

\* the most allocations of one minijail_unmarshal that are told apart
MaxAllocs == 6

\* minijail_unmarshal(k, stream, n) on the image the sender wrote into a buffer
\* of exactly minijail_size cells (as minijail_to_fd does), or on a prefix of
\* it; the allocation that fails is one of ooms (0: none)
UnmarshalWith(ooms) ==
    /\ hpc \in {"marshalled", "tampered"}
    /\ mret = 0
    /\ avail = written
    /\ \E n \in (IF hpc = "tampered" THEN {SLen(stream)} ELSE 0..SLen(stream)), oom \in ooms :
          \E u \in { minijail_unmarshal(k, stream, n, oom) } :
             /\ k' = u.j
             /\ uret' = u.ret
             /\ hiRead' = u.hi
             /\ ulen' = n
             /\ umem' = [made |-> u.made, freed |-> u.freed, to |-> u.to]
             /\ hpc' = IF u.to = "segv" THEN die ELSE "unmarshalled"
    /\ UNCHANGED << kinVars, par, pathVars, callVars, j, ncalls, added, stream, avail, mret, written, launchVars, waitVars >>

\* minijail_unmarshal with every allocation granted
Unmarshal == UnmarshalWith({0})

\* minijail_unmarshal with any one allocation refused
UnmarshalNoMem == UnmarshalWith(1..MaxAllocs)

SpecUnmarshal == Init /\ [][Build(MarshalCalls) \/ Marshal \/ Tamper \/ Unmarshal \/ UnmarshalNoMem]_vars

NextMarshal == Build(MarshalCalls) \/ Marshal \/ Tamper \/ Unmarshal

SpecMarshal == Init /\ [][NextMarshal]_vars

(***************************************************************************)
(* Wait statuses, as waitpid and wait3 hand them out.                      *)
(***************************************************************************)
\* the status of a process that called _exit(n) or exit(n)
ExitStatus(n) == (n % 256) * 256

\* the status of a process that a signal ended
SignalStatus(sig) == sig

WIFEXITED(st) == st % 128 = 0
WEXITSTATUS(st) == (st \div 256) % 256
WIFSIGNALED(st) == st % 128 # 0 /\ st % 128 # 127
WTERMSIG(st) == st % 128

\* the status of a process ended by die or pdie: abort raises SIGABRT
Aborted == SignalStatus(SIGABRT)

(***************************************************************************)
(* The launch paths.                                                       *)
(***************************************************************************)
\* the builder calls of a host that launches
EnterCalls ==
    << Call("change_uid", << >>, << >>, 1000, 0, "ok"),
       Call("change_gid", << >>, << >>, 1000, 0, "ok"),
       Call("change_user", UserName, << >>, 1000, 1000, "ok"),
       Call("use_seccomp", << >>, << >>, 0, 0, "ok"),
       Call("no_new_privs", << >>, << >>, 0, 0, "ok"),
       Call("use_seccomp_filter", << >>, << >>, 0, 0, "ok"),
       Call("log_seccomp_filter_failures", << >>, << >>, 0, 0, "ok"),
       Call("use_caps", << >>, << >>, 1, 0, "ok"),
       Call("namespace_vfs", << >>, << >>, 0, 0, "ok"),
       Call("namespace_pids", << >>, << >>, 0, 0, "ok"),
       Call("namespace_net", << >>, << >>, 0, 0, "ok"),
       Call("remount_readonly", << >>, << >>, 0, 0, "ok"),
       Call("inherit_usergroups", << >>, << >>, 0, 0, "ok"),
       Call("enter_chroot", PathJail, << >>, 0, 0, "ok"),
       Call("mount_tmp", << >>, << >>, 0, 0, "ok"),
       BindRO, BindRW,
       Call("time_limit", << >>, << >>, 1000, 0, "ok"),
       Call("output_limit", << >>, << >>, 4096, 0, "ok") >>

\* the pid fork or clone hands to the parent
ChildPid == 2

\* minijail_enter(j), called by the host in its own process; f is the call that fails
HostEnter ==
    /\ hpc = "build"
    /\ \E f \in 0..Len(minijail_enter(j)) :
          LET r == IF EnterRefuses(j) THEN [issued |-> << >>, alive |-> FALSE, failed |-> ""]
                   ELSE RunOps(minijail_enter(j), f)
          IN /\ EnterRefuses(j) => f = 0
             /\ trace' = r.issued
             /\ failed' = r.failed
             /\ cpc' = IF r.alive THEN "entered" ELSE die
             /\ enterEnd' = IF r.alive THEN Len(r.issued) ELSE -1
    /\ mode' = "enter"
    /\ cj' = j
    /\ hpc' = "launched"
    /\ UNCHANGED << kinVars, par, pathVars, callVars, j, ncalls, added, marshalVars, waitVars >>

\* the call the launcher makes a child with: syscall(SYS_clone, CLONE_NEWPID |
\* SIGCHLD, NULL) with a pid namespace, fork() without
LaunchCall(p) ==
    IF "pids" \in p.flags THEN Op("clone_newpid", 0) ELSE Op("launcher_fork", 0)

\* minijail_run_pid_pipes and minijail_run_static up to the return of the
\* parent: the caps test of run_static, the fork or clone (ok: it worked), and
\* in the parent of run_pid_pipes minijail_to_fd
Launch ==
    /\ hpc = "build"
    /\ \E m \in {"run", "static"}, ok \in BOOLEAN :
          IF (m = "static" /\ "caps" \in j.flags) \/ ~ok
          THEN /\ hpc' = die
               /\ trace' = IF m = "static" /\ "caps" \in j.flags THEN trace
                            ELSE << LaunchCall(j) >>
               /\ UNCHANGED << j, marshalVars, mode, cj, cpc, failed, enterEnd >>
          ELSE /\ hpc' = "launched"
               /\ mode' = m
               /\ cj' = j
               /\ cpc' = "child"
               /\ j' = [j EXCEPT !.initpid = ChildPid]
               /\ IF m = "run"
                  THEN LET sz == minijail_size(j')
                           r == minijail_marshal(j', sz)
                       IN /\ stream' = [head |-> r.buf, pad |-> 0]
                          /\ avail' = sz
                          /\ mret' = r.ret
                          /\ written' = Len(r.buf)
                  ELSE UNCHANGED << stream, avail, mret, written >>
               /\ trace' = << LaunchCall(j) >>
               /\ UNCHANGED << k, uret, ulen, hiRead, umem, failed, enterEnd >>
    /\ UNCHANGED << kinVars, par, pathVars, callVars, ncalls, added, waitVars >>

\* the struct minijail_enter is given in the child: minijail_preexec(j) in
\* run_pid_pipes, j->flags.pids = 0 in run_static
ChildPolicy(m, p) ==
    IF m = "run" THEN minijail_preexec(p) ELSE [p EXCEPT !.flags = @ \ {"pids"}]

\* what the child of minijail_run_pid_pipes releases before minijail_enter:
\* free(oldenv_copy) after the fork and free(j->user) in minijail_preexec;
\* the child of minijail_run_static releases nothing
ChildStart(m, p) ==
    IF m = "run"
    THEN << Ignored(Op("free", 0)) >>
             \o (IF p.user.addr # 0 THEN << Ignored(Op("free", 1)) >> ELSE << >>)
    ELSE << >>

\* the child, from the fork to the return of minijail_enter
ChildEnter ==
    /\ cpc = "child"
    /\ LET p == ChildPolicy(mode, cj)
       IN \E f \in 0..Len(minijail_enter(p)) :
             LET r == IF EnterRefuses(p)
                      THEN [issued |-> << >>, alive |-> FALSE, failed |-> ""]
                      ELSE RunOps(minijail_enter(p), f)
             IN /\ EnterRefuses(p) => f = 0
                /\ cj' = p
                /\ trace' = trace \o ChildStart(mode, cj) \o r.issued
                /\ failed' = r.failed
                /\ cpc' = IF r.alive THEN "entered" ELSE die
                /\ enterEnd' = IF r.alive THEN Len(trace') ELSE -1
                /\ cstatus' = IF r.alive THEN cstatus ELSE Aborted
    /\ UNCHANGED << kinVars, par, pathVars, callVars, j, ncalls, added, hpc, marshalVars, mode,
                    ipc, init_exitstatus, signal_override, tstatus, wret, sid, meta, term >>

\* the child of minijail_run_pid_pipes forking whether or not there is a pid
\* namespace
RunChild_AlwaysFork(pidns, chroot, p) ==
    << Op("fork", 0), Op("setsid", 0) >>
        \o (IF chroot THEN enter_chroot(p) ELSE << >>)
        \o << Op("execve", 0) >>

\* the child of minijail_run_pid_pipes after minijail_enter; pidns and chroot
\* are the flags saved before minijail_preexec
RunChild(pidns, chroot, p) ==
    (IF pidns THEN << Op("fork", 0) >> ELSE << >>)
        \o << Op("setsid", 0) >>
        \o (IF chroot THEN enter_chroot(p) ELSE << >>)
        \o << Op("execve", 0) >>

\* the child of minijail_run_static after minijail_enter; wide is the outcome
\* of an overflow in setup_limits
StaticChild(pidns, p, wide) ==
    (IF pidns THEN << Op("fork", 0) >> ELSE << >>)
        \o (IF "chroot" \in p.flags THEN enter_chroot(p) ELSE << >>)
        \o setup_limits(p, wide)
        \o (IF "meta_file" \in p.flags THEN << Ignored(Op("fclose", 0)) >> ELSE << >>)
        \o << Op("execve", 0) >>

\* the status a child leaves when the call named op has failed: _exit(child_pid)
\* after fork, _exit(execve(...)), die or pdie after the others
FailStatus(op) == IF op \in {"fork", "execve"} THEN ExitStatus(-1) ELSE Aborted

\* the child from the return of minijail_enter to execve. When there is a pid
\* namespace the child forks first and stays behind as init, and the new
\* process goes on from the fork in a step of its own.
ChildExec ==
    /\ cpc \in {"entered", "forked"}
    /\ mode \in {"run", "static"}
    /\ \E wide \in BOOLEAN :
       LET pidns == "pids" \in j.flags
           all == IF mode = "run" THEN RunChild(pidns, "chroot" \in j.flags, cj)
                  ELSE StaticChild(pidns, cj, wide)
           forking == pidns /\ cpc = "entered"
           ops == IF ~pidns THEN all ELSE IF forking THEN << Head(all) >> ELSE Tail(all)
       IN \E f \in 0..Len(ops) :
             LET r == RunOps(ops, f)
                 st == IF r.alive THEN -1 ELSE FailStatus(r.failed)
             IN /\ trace' = trace \o r.issued
                /\ failed' = r.failed
                /\ cpc' = IF ~r.alive THEN die ELSE IF forking THEN "forked" ELSE "exec"
                /\ ipc' = IF forking /\ r.alive THEN "wait" ELSE ipc
                /\ tstatus' = IF pidns /\ ~forking THEN st ELSE tstatus
                /\ cstatus' = IF pidns /\ ~forking THEN cstatus ELSE st
                /\ sid' = (sid \/ \E i \in 1..Len(r.issued) : r.issued[i].op = "setsid")
    /\ UNCHANGED << kinVars, par, pathVars, callVars, j, ncalls, added, hpc, marshalVars, mode, cj, enterEnd,
                    init_exitstatus, signal_override, wret, meta, term >>

\* the builder calls of a host that keeps capabilities: the masks of one
\* capability out of 0..last_cap + 1, the same with capability 0 added, and
\* the mask of all of them, with or without a change of uid
CapsCalls ==
    [m \in 1..(last_cap + 2) |-> Call("use_caps", << >>, << >>, Pow2(m - 1), 0, "ok")]
        \o [m \in 1..(last_cap + 1) |-> Call("use_caps", << >>, << >>, Pow2(m) + 1, 0, "ok")]
        \o << Call("use_caps", << >>, << >>, Pow2(last_cap + 2) - 1, 0, "ok"),
              Call("change_uid", << >>, << >>, 1000, 0, "ok") >>

SpecCaps == Init /\ [][Build(CapsCalls) \/ HostEnter]_vars

\* the time limits a host asks for, in milliseconds: around a second, around
\* the largest t with t * 1000 in int, and around the largest int
TimeLimits ==
    << 0, 1, 999, 1000, 1001, 1999, 2000, 60000, INT_MAX \div 1000, INT_MAX \div 1000 + 1,
       INT_MAX \div 2, INT_MAX - 2000, INT_MAX - 1999, INT_MAX - 1998, INT_MAX - 1000,
       INT_MAX - 999, INT_MAX - 998, INT_MAX - 1, INT_MAX >>

\* the builder calls of a host that sets limits
LimitCalls ==
    [i \in 1..Len(TimeLimits) |-> Call("time_limit", << >>, << >>, TimeLimits[i], 0, "ok")]
        \o << Call("stack_limit", << >>, << >>, 4096, 0, "ok") >>

\* setup_limits(j) in the process that is about to execve
SetupLimits ==
    /\ hpc \in {"build", "launched"}
    /\ mode \in {"none", "limits"}
    /\ cpc = "none"
    /\ \E wide \in BOOLEAN : trace' = trace \o setup_limits(j, wide)
    /\ cpc' = "limited"
    /\ mode' = "limits"
    /\ hpc' = "launched"
    /\ cj' = j
    /\ UNCHANGED << kinVars, par, pathVars, callVars, j, ncalls, added, marshalVars, failed,
                    enterEnd, waitVars >>

\* init arms its alarm
InitAlarm ==
    /\ hpc \in {"build", "launched"}
    /\ mode \in {"none", "limits"}
    /\ ipc = "none"
    /\ \E wide \in BOOLEAN : trace' = trace \o init_alarm(j, wide)
    /\ ipc' = "wait"
    /\ mode' = "limits"
    /\ hpc' = "launched"
    /\ UNCHANGED << kinVars, par, pathVars, callVars, j, ncalls, added, marshalVars, cj, cpc,
                    failed, enterEnd, init_exitstatus, signal_override, tstatus, cstatus,
                    wret, sid, meta, term >>

SpecLimit == Init /\ [][Build(LimitCalls) \/ SetupLimits \/ InitAlarm]_vars

Next == Build(EnterCalls) \/ HostEnter \/ Launch \/ ChildEnter \/ ChildExec

Spec == Init /\ [][Next]_vars

(***************************************************************************)
(* The target, the init supervisor and minijail_wait.                      *)
(***************************************************************************)
\* the builder calls of a host that launches and waits
WaitCalls ==
    << Call("namespace_pids", << >>, << >>, 0, 0, "ok"),
       Call("time_limit", << >>, << >>, 1000, 0, "ok"),
       Call("enter_chroot", PathJail, << >>, 0, 0, "ok"),
       Call("change_uid", << >>, << >>, 1000, 0, "ok"),
       Call("meta_file", << >>, << >>, 0, 0, "ok") >>

\* the exit codes and the fatal signals of a target
ExitCodes == {0, 1, 42}
FatalSignals == {SIGKILL, SIGSYS, SIGXCPU}

\* whether the process that runs the target is the child of an init supervisor
HasInit == "pids" \in j.flags

\* the target ends: st is its wait status, which its parent will collect
TargetEnds(st) ==
    /\ cpc = "exec"
    /\ cpc' = "done"
    /\ tstatus' = IF HasInit THEN st ELSE tstatus
    /\ cstatus' = IF HasInit THEN cstatus ELSE st
    /\ UNCHANGED << kinVars, par, pathVars, callVars, j, ncalls, added, hpc, marshalVars, mode, cj, trace, failed, enterEnd,
                    ipc, init_exitstatus, signal_override, wret, sid, meta, term >>

\* the target calls exit(n)
TargetExit == \E n \in ExitCodes : TargetEnds(ExitStatus(n))

\* a signal ends the target
TargetSignal == \E sig \in FatalSignals : TargetEnds(SignalStatus(sig))

\* whether a signal sent to the process group -child_pid reaches the target:
\* the group exists only when the target has made itself its leader
GroupKillHits == sid /\ tstatus = -1

\* timeout, the SIGALRM handler of init: the alarm is armed when time_limit is
\* set; kill(-child_pid, SIGKILL) ends the processes of the group child_pid
Timeout ==
    /\ ipc \in {"wait", "reaped"}
    /\ "time_limit" \in cj.flags
    /\ signal_override = 0
    /\ signal_override' = SIGXCPU
    /\ tstatus' = IF GroupKillHits THEN SignalStatus(SIGKILL) ELSE tstatus
    /\ cpc' = IF GroupKillHits THEN "done" ELSE cpc
    /\ UNCHANGED << kinVars, par, pathVars, callVars, j, ncalls, added, hpc, marshalVars, mode, cj, trace, failed, enterEnd,
                    ipc, init_exitstatus, cstatus, wret, sid, meta, term >>

\* the most processes the target leaves behind in the pid namespace of init
MaxOrphans == 2

\* the wait statuses of the processes the target leaves behind
OrphanStatuses == { ExitStatus(7), SignalStatus(SIGTERM) }

\* the SIGALRM that ualarm has armed in setup_limits arrives. The timer
\* belongs to the process that called ualarm, which is the one that goes on
\* to execve; execve keeps the timer and resets the action to the default.
\* what wait3 stores in usage when it returns the process pid: the user time
\* and peak resident set of that process, different for each process
RusageOf(pid) ==
    [ru_utime |-> [tv_sec |-> pid - ChildPid, tv_usec |-> 500],
     ru_maxrss |-> 100 + pid - ChildPid]

TargetAlarm ==
    /\ \E i \in 1..Len(trace) : trace[i].op = "ualarm"
    /\ TargetEnds(SignalStatus(SIGALRM))

\* the target makes a process that will be left to init
TargetSpawn ==
    /\ cpc = "exec"
    /\ orphans.live + orphans.reaped < MaxOrphans
    /\ orphans' = [orphans EXCEPT !.live = @ + 1]
    /\ UNCHANGED << helper, kid, pipe, usage, par, pathVars, callVars, j, ncalls, added, hpc, marshalVars, launchVars,
                    waitVars >>

\* the body of the wait loop of init with every status recorded
InitRecord_Any(pid, rootpid, status, old) == status

\* the body of the wait loop of init: if (pid == rootpid) init_exitstatus =
\* status
InitRecord(pid, rootpid, status, old) == IF pid = rootpid THEN status ELSE old

\* init: wait3 hands out the status of a process other than rootpid
InitReapOrphan ==
    /\ ipc \in {"wait", "reaped"}
    /\ orphans.live > 0
    /\ \E n \in 1..MaxOrphans, st \in OrphanStatuses :
          /\ init_exitstatus' = InitRecord(ChildPid + n, ChildPid, st, init_exitstatus)
          /\ usage' = RusageOf(ChildPid + n)
    /\ orphans' = [live |-> orphans.live - 1, reaped |-> orphans.reaped + 1]
    /\ UNCHANGED << helper, kid, pipe, par, pathVars, callVars, j, ncalls, added, hpc, marshalVars, launchVars,
                    ipc, signal_override, tstatus, cstatus, wret, sid, meta, term >>

\* init: wait3 hands out the status of rootpid
InitReap ==
    /\ ipc = "wait"
    /\ tstatus # -1
    /\ init_exitstatus' = InitRecord(ChildPid, ChildPid, tstatus, init_exitstatus)
    /\ usage' = RusageOf(ChildPid)
    /\ ipc' = "reaped"
    /\ UNCHANGED << helper, kid, orphans, pipe, par, pathVars, callVars, j, ncalls, added, hpc, marshalVars, launchVars,
                    signal_override, tstatus, cstatus, wret, sid, meta, term >>

\* the exit status init computes once its wait loop has ended
InitExitCode(status, override) ==
    IF override # 0 THEN MINIJAIL_ERR_INIT
    ELSE IF ~WIFEXITED(status) THEN MINIJAIL_ERR_INIT
    ELSE WEXITSTATUS(status)

\* the exit_signal init computes once its wait loop has ended
InitExitSignal(status, override) ==
    IF override # 0 THEN override
    ELSE IF ~WIFEXITED(status)
         THEN IF WIFSIGNALED(status) THEN WTERMSIG(status) ELSE -1
    ELSE 0

\* init that writes the status line whatever the exit signal is
MetaLines_StatusOnly(status, override, ru) ==
    LET Line(key, val) == [key |-> key, val |-> val, end |-> 10]
    IN << Line("time", 1000000 * ru.ru_utime.tv_sec + ru.ru_utime.tv_usec),
          Line("time-wall", 0),
          Line("mem", ru.ru_maxrss * 1024),
          Line("status", InitExitCode(status, override)) >>

\* the lines the two fprintf calls of init write: key, ':', the number val and
\* the character end, which is LF in every format (val is 0 for the measured
\* times and memory, which the model does not hold)
MetaLines(status, override, ru) ==
    LET Line(key, val) == [key |-> key, val |-> val, end |-> 10]
    IN << Line("time", 1000000 * ru.ru_utime.tv_sec + ru.ru_utime.tv_usec),
          Line("time-wall", 0),
          Line("mem", ru.ru_maxrss * 1024),
          IF InitExitSignal(status, override) # 0
          THEN Line("signal", InitExitSignal(status, override))
          ELSE Line("status", InitExitCode(status, override)) >>

\* init: no child is left, wait3 fails, init writes the meta lines and leaves
\* with _exit(exit_status)
InitExit ==
    /\ ipc = "reaped"
    /\ orphans.live = 0
    /\ meta' = IF "meta_file" \in cj.flags
               THEN meta \o MetaLines(init_exitstatus, signal_override, usage)
               ELSE meta
    /\ cstatus' = ExitStatus(InitExitCode(init_exitstatus, signal_override))
    /\ ipc' = "exited"
    /\ UNCHANGED << kinVars, par, pathVars, callVars, j, ncalls, added, hpc, marshalVars, launchVars,
                    init_exitstatus, signal_override, tstatus, wret, sid, term >>

\* init_term, the SIGTERM handler of init: _exit(init_exitstatus). init is
\* process 1 of its pid namespace, so the kernel kills what is left in it.
InitTerm ==
    /\ term
    /\ ipc \in {"wait", "reaped"}
    /\ term' = FALSE
    /\ cstatus' = ExitStatus(init_exitstatus)
    /\ ipc' = "termed"
    /\ tstatus' = IF tstatus = -1 THEN SignalStatus(SIGKILL) ELSE tstatus
    /\ cpc' = IF tstatus = -1 THEN "done" ELSE cpc
    /\ orphans' = [orphans EXCEPT !.live = 0]
    /\ UNCHANGED << helper, kid, pipe, usage, par, pathVars, callVars, j, ncalls, added, hpc, marshalVars, mode, cj, trace, failed, enterEnd,
                    init_exitstatus, signal_override, wret, sid, meta >>

\* SIGTERM reaches a first-generation child that runs the target itself and
\* has no handler for it
TargetTerm ==
    /\ term
    /\ ~HasInit
    /\ cstatus = -1
    /\ cpc = "exec"
    /\ term' = FALSE
    /\ cstatus' = SignalStatus(SIGTERM)
    /\ cpc' = "done"
    /\ UNCHANGED << kinVars, par, pathVars, callVars, j, ncalls, added, hpc, marshalVars, mode, cj, trace, failed, enterEnd,
                    ipc, init_exitstatus, signal_override, tstatus, wret, sid, meta >>

\* minijail_wait on the status st that waitpid(j->initpid) has stored
minijail_wait(st) ==
    IF ~WIFEXITED(st)
    THEN IF WIFSIGNALED(st)
         THEN IF WTERMSIG(st) = SIGSYS THEN MINIJAIL_ERR_JAIL ELSE 128 + WTERMSIG(st)
         ELSE st
    ELSE WEXITSTATUS(st)

\* the host calls minijail_wait; waitpid returns when the child has ended
Wait ==
    /\ hpc = "launched"
    /\ mode \in {"run", "static"}
    /\ cstatus # -1
    /\ wret' = minijail_wait(cstatus)
    /\ hpc' = "waited"
    /\ UNCHANGED << kinVars, par, pathVars, callVars, j, ncalls, added, marshalVars, launchVars,
                    ipc, init_exitstatus, signal_override, tstatus, cstatus, sid, meta, term >>

\* minijail_kill, first half: kill(j->initpid, SIGTERM)
Kill ==
    /\ hpc = "launched"
    /\ mode \in {"run", "static"}
    /\ term' = TRUE
    /\ hpc' = "killing"
    /\ UNCHANGED << kinVars, par, pathVars, callVars, j, ncalls, added, marshalVars, launchVars,
                    ipc, init_exitstatus, signal_override, tstatus, cstatus, wret, sid, meta >>

\* minijail_kill, second half: waitpid(j->initpid, &st, 0) and return st
KillReap ==
    /\ hpc = "killing"
    /\ cstatus # -1
    /\ wret' = cstatus
    /\ hpc' = "killed"
    /\ UNCHANGED << kinVars, par, pathVars, callVars, j, ncalls, added, marshalVars, launchVars,
                    ipc, init_exitstatus, signal_override, tstatus, cstatus, sid, meta, term >>

NextWait ==
    \/ Build(WaitCalls) \/ Launch \/ ChildEnter \/ ChildExec
    \/ TargetExit \/ TargetSignal \/ Timeout \/ InitReap \/ InitExit \/ Wait
    \/ InitTerm \/ TargetTerm \/ Kill \/ KillReap
    \/ TargetAlarm \/ TargetSpawn \/ InitReapOrphan

SpecWait == Init /\ [][NextWait]_vars

(***************************************************************************)
(* The path resolver, minijail_get_path.                                   *)
(***************************************************************************)
\* strlen(buf): the cells before the first NUL (all of them when there is none)
CStrlen(buf) ==
    LET z == { i \in 1..Len(buf) : buf[i] = 0 }
    IN IF z = {} THEN Len(buf) ELSE (CHOOSE i \in z : \A i2 \in z : i <= i2) - 1

\* the C string a buffer holds
BufStr(buf) == SubSeq(buf, 1, CStrlen(buf))

\* buf with cells stored from offset off on (what falls behind its end is
\* left out)
Poke(buf, off, cells) ==
    SubSeq(buf, 1, off)
        \o SubSeq(cells, 1, Min(Len(cells), Len(buf) - off))
        \o SubSeq(buf, off + Len(cells) + 1, Len(buf))

\* strncpy(buf + off, str, n): the characters of str, then NUL cells up to n
Strncpy(buf, off, str, n) ==
    Poke(buf, off, SubSeq(str, 1, Min(n, Len(str))) \o [i \in 1..(n - Min(n, Len(str))) |-> 0])

\* snprintf(buf + off, size, "/%s", path): at most size - 1 characters and a NUL
Snprintf(buf, off, size, path) ==
    IF size <= 0 THEN buf
    ELSE Poke(buf, off, SubSeq(<< 47 >> \o path, 1, Min(size - 1, Len(path) + 1)) \o << 0 >>)

concat_path(buffer, buffer_len, path) ==
    LET len == CStrlen(buffer)
        pathlen == Len(path)
        last == IF len > 0 THEN buffer[len] ELSE 0
    IN IF len > 0 /\ last # 47 /\ path[1] # 47
       THEN IF len + pathlen + 1 >= buffer_len THEN [ret |-> -1, buf |-> buffer]
            ELSE [ret |-> 0, buf |-> Snprintf(buffer, len, buffer_len - len - 1, path)]
       ELSE IF len > 0 /\ last = 47 /\ path[1] = 47
       THEN IF len + pathlen >= buffer_len THEN [ret |-> -1, buf |-> buffer]
            ELSE [ret |-> 0, buf |-> Strncpy(buffer, len, Tail(path), buffer_len - len)]
       ELSE IF len + pathlen >= buffer_len THEN [ret |-> -1, buf |-> buffer]
            ELSE [ret |-> 0, buf |-> Strncpy(buffer, len, path, buffer_len - len)]

\* the loop over the bindings: the index of the first binding of greatest
\* strlen(dest) with strncmp(dest, buffer, strlen(dest)) == 0, 0 when none
BestBinding(bl, buffer) ==
    LET Match(i) == /\ Len(bl[i].dest) > 0
                    /\ Len(bl[i].dest) <= Len(buffer)
                    /\ SubSeq(buffer, 1, Len(bl[i].dest)) = bl[i].dest
        m == { i \in 1..Len(bl) : Match(i) }
        top == { i \in m : \A i2 \in m : Len(bl[i2].dest) <= Len(bl[i].dest) }
    IN IF m = {} THEN 0 ELSE CHOOSE i \in top : \A i2 \in top : i <= i2

\* a path as the kernel reads it: repeated slashes count as one
RECURSIVE Canon(_)
Canon(str) ==
    IF Len(str) < 2 THEN str
    ELSE IF str[1] = 47 /\ str[2] = 47 THEN Canon(Tail(str))
    ELSE << str[1] >> \o Canon(Tail(str))

\* lstat and readlink on the files fs
Lstat(fs, str) ==
    LET hit == { e \in fs : e.path = Canon(str) }
    IN IF hit = {} THEN [path |-> str, kind |-> "none", target |-> << >>]
       ELSE CHOOSE e \in hit : TRUE

\* the working directory getcwd reports: "/h"
Cwd == << 47, 104 >>

\* minijail_get_path, first part: buffer[0] = '\0' and, for a relative path,
\* the directory it is relative to
GetPathStart(p, buffer, path) ==
    IF path[1] = 47 THEN [ret |-> 0, buf |-> Poke(buffer, 0, << 0 >>)]
    ELSE IF "chdir" \in p.flags
    THEN concat_path(Poke(buffer, 0, << 0 >>), Len(buffer), p.chdir.val)
    ELSE IF "chroot" \in p.flags
    THEN concat_path(Poke(buffer, 0, << 0 >>), Len(buffer), << 47 >>)
    ELSE IF Len(Cwd) >= Len(buffer) THEN [ret |-> -1, buf |-> Poke(buffer, 0, << 0 >>)]
    ELSE [ret |-> 0, buf |-> Poke(buffer, 0, CStr(Cwd))]

\* second part: concat_path(buffer, buffer_len - len, path)
GetPathAbsolute(pre, path) ==
    IF pre.ret # 0 THEN [ret |-> 1, buf |-> pre.buf]
    ELSE LET c == concat_path(pre.buf, Len(pre.buf) - CStrlen(pre.buf), path)
         IN [ret |-> IF c.ret # 0 THEN 1 ELSE 0, buf |-> c.buf]

\* third part: the binding with the longest match, the space test, memmove,
\* strncpy and buffer[src_len] = '/'
GetPathRewrite(p, a) ==
    LET len == CStrlen(a.buf)
        bl == BindingList(p)
        best == BestBinding(bl, a.buf)
        src_path == IF best # 0 THEN bl[best].src
                    ELSE IF "chroot" \in p.flags THEN p.chrootdir.val
                    ELSE << 47 >>
        best_len == IF best # 0 THEN Len(bl[best].dest) ELSE 1
        src_len == IF src_path[Len(src_path)] = 47 THEN Len(src_path) - 1 ELSE Len(src_path)
    IN IF a.ret # 0 THEN a
       ELSE IF len - best_len + src_len + 2 >= Len(a.buf) THEN [ret |-> 1, buf |-> a.buf]
       ELSE [ret |-> 0,
             buf |-> Poke(Poke(Poke(a.buf, src_len + 1, SubSeq(a.buf, best_len + 1, len)),
                               0, SubSeq(src_path, 1, src_len)),
                          src_len, << 47 >>)]

\* minijail_get_path: the three parts, then lstat, S_ISREG, S_ISLNK, readlink
\* and the recursive call. depth counts the calls that may still nest, and a
\* call at depth 0 stands for a recursion that goes on: ret is -1.
RECURSIVE minijail_get_path(_, _, _, _, _)
minijail_get_path(p, buffer, path, fs, depth) ==
    LET File(w) ==
            LET st == Lstat(fs, BufStr(w.buf))
            IN IF w.ret # 0 THEN w
               ELSE IF st.kind = "reg" THEN [ret |-> 0, buf |-> w.buf]
               ELSE IF st.kind # "lnk" THEN [ret |-> 1, buf |-> w.buf]
               ELSE minijail_get_path(p, w.buf, st.target, fs, depth - 1)
    IN IF depth = 0 THEN [ret |-> -1, buf |-> buffer]
       ELSE CHOOSE r \in
                { File(w) : w \in
                    { GetPathRewrite(p, a) : a \in
                        { GetPathAbsolute(pre, path) : pre \in
                            { GetPathStart(p, buffer, path) } } } } : TRUE

\* "/a", "/a/b", "/x", "/y": the dest and src of the bindings of a resolving host
PathA == << 47, 97 >>
PathAB == << 47, 97, 47, 98 >>
PathX == << 47, 120 >>
PathY == << 47, 121 >>

\* the builder calls of a host that resolves the path of its target
PathCalls ==
    << Call("bind", PathX, PathA, 1, 0, "ok"),
       Call("bind", PathY, PathAB, 1, 0, "ok"),
       Call("enter_chroot", PathJail, << >>, 0, 0, "ok"),
       Call("chroot_chdir", PathA, << >>, 0, 0, "ok") >>

\* the paths a host resolves: "/a/b/c", "/a/d", "/ab", "/q", "d", "b/c"
Paths ==
    { PathAB \o << 47, 99 >>, PathA \o << 47, 100 >>, << 47, 97, 98 >>, << 47, 113 >>,
      << 100 >>, << 98, 47, 99 >> }

\* the files of the host: regular files and directories; a chain of two
\* symbolic links that ends at a regular file, and a directory where the
\* chroot has "/q"; symbolic links that form a cycle
FileSystems ==
    LET File(path, kind, target) == [path |-> path, kind |-> kind, target |-> target]
        Reg(path) == File(path, "reg", << >>)
        xd == PathX \o << 47, 100 >>
        xe == PathX \o << 47, 101 >>
        xf == PathX \o << 47, 102 >>
        yc == PathY \o << 47, 99 >>
        ae == PathA \o << 47, 101 >>
        af == PathA \o << 47, 102 >>
        ad == PathA \o << 47, 100 >>
    IN { { Reg(xd), Reg(yc), File(PathY, "dir", << >>), Reg(PathJail \o << 47, 113 >>) },
         { File(xd, "lnk", ae), File(xe, "lnk", af), Reg(xf), Reg(yc),
           File(PathJail \o << 47, 113 >>, "dir", << >>) },
         { File(xd, "lnk", ae), File(xe, "lnk", ad), Reg(yc) } }

\* main of minijail0 resolves the path of its target into filepath, an array
\* that is not initialized: every cell holds fill
GetPath ==
    /\ hpc = "build"
    /\ \E path \in Paths, fs \in FileSystems, fill \in {0, 63} :
          \E r \in { minijail_get_path(j, [i \in 1..BufLen |-> fill], path, fs, MaxDepth) } :
             /\ gpath' = path
             /\ gfs' = fs
             /\ gbuf' = r.buf
             /\ gret' = r.ret
    /\ hpc' = "resolved"
    /\ UNCHANGED << kinVars, par, callVars, j, ncalls, added, marshalVars, launchVars, waitVars >>

NextPath == Build(PathCalls) \/ GetPath

SpecPath == Init /\ [][NextPath]_vars

(***************************************************************************)
(* A host that calls the builder and the two strip functions on a Policy.  *)
(***************************************************************************)
\* the calls of such a host, with the outcomes of the library calls in them
PolicyCalls ==
    << Call("namespace_pids", << >>, << >>, 0, 0, "ok"),
       Call("namespace_vfs", << >>, << >>, 0, 0, "ok"),
       Call("remount_readonly", << >>, << >>, 0, 0, "ok"),
       Call("use_seccomp", << >>, << >>, 0, 0, "ok"),
       Call("time_limit", << >>, << >>, 1000, 0, "ok"),
       Call("enter_chroot", PathJail, << >>, 0, 0, "ok"),
       Call("enter_chroot", PathJail, << >>, 0, 0, "nomem"),
       Call("chroot_chdir", PathWork, << >>, 0, 0, "ok"),
       Call("chroot_chdir", Tail(PathWork), << >>, 0, 0, "ok"),
       Call("chroot_chdir", PathWork, << >>, 0, 0, "nomem"),
       BindRO, BindRW,
       Call("bind", PathWork, Tail(PathWork), 0, 0, "ok"),
       Call("bind", PathWork, PathWork, 0, 0, "nomem"),
       Call("change_user", UserName, << >>, 1000, 1000, "ok"),
       Call("change_user", UserName, << >>, 1000, 1000, "nobuf"),
       Call("change_user", UserName, << >>, 1000, 1000, "notfound"),
       Call("change_user", UserName, << >>, 1000, 1000, "nomem"),
       Call("change_group", UserName, << >>, 1000, 0, "ok"),
       Call("change_group", UserName, << >>, 1000, 0, "nobuf"),
       Call("change_group", UserName, << >>, 1000, 0, "notfound"),
       Call("meta_file", << >>, << >>, 0, 0, "ok"),
       Call("meta_file", << >>, << >>, 0, 0, "notfound") >>

\* one builder call out of PolicyCalls
PolicyCall ==
    /\ hpc = "build"
    /\ ncalls < MaxCalls
    /\ \E i \in 1..Len(PolicyCalls) :
          \E r \in { Apply(j, PolicyCalls[i]) } :
             /\ j' = r.j
             /\ lret' = r.ret
             /\ lcall' = PolicyCalls[i]
             /\ added' = IF PolicyCalls[i].op = "bind" /\ r.ret = 0
                          THEN Append(added, [src |-> PolicyCalls[i].s, dest |-> PolicyCalls[i].t,
                                              writeable |-> PolicyCalls[i].n])
                          ELSE added
    /\ prev' = j
    /\ ncalls' = ncalls + 1
    /\ UNCHANGED << kinVars, par, pathVars, hpc, marshalVars, launchVars, waitVars >>

\* the host calls minijail_preenter
Preenter ==
    /\ hpc = "build"
    /\ ncalls < MaxCalls
    /\ j' = minijail_preenter(j)
    /\ lcall' = Call("preenter", << >>, << >>, 0, 0, "ok")
    /\ lret' = 0
    /\ prev' = j
    /\ ncalls' = ncalls + 1
    /\ UNCHANGED << kinVars, par, pathVars, added, hpc, marshalVars, launchVars, waitVars >>

\* the host calls minijail_preexec
Preexec ==
    /\ hpc = "build"
    /\ ncalls < MaxCalls
    /\ j' = minijail_preexec(j)
    /\ lcall' = Call("preexec", << >>, << >>, 0, 0, "ok")
    /\ lret' = 0
    /\ prev' = j
    /\ ncalls' = ncalls + 1
    /\ UNCHANGED << kinVars, par, pathVars, added, hpc, marshalVars, launchVars, waitVars >>

NextPolicy == PolicyCall \/ Preenter \/ Preexec

SpecPolicy == Init /\ [][NextPolicy]_vars

(***************************************************************************)
(* The parent in minijail_run_pid_pipes: LD_PRELOAD, the pipes, the fork   *)
(* and minijail_to_fd.                                                     *)
(***************************************************************************)
\* setup_preload: LD_PRELOAD becomes its old value, a space when that is not
\* empty, and PRELOADPATH
setup_preload(env) ==
    EnvSet((IF env.set THEN env.val ELSE << >>)
           \o (IF env.set /\ Len(env.val) > 0 THEN << 32 >> ELSE << >>)
           \o PreloadPath)

\* pipe(2): the two lowest descriptors above stderr that are not open
Pipe(open) ==
    LET free == (3..(4 + Cardinality(open))) \ open
        a == CHOOSE n \in free : \A m \in free : n <= m
        b == CHOOSE n \in free \ {a} : \A m \in free \ {a} : n <= m
    IN << a, b >>

\* setup_pipe: pipe(fds) and setenv(kFdEnvVar, "%d" of fds[0])
setup_pipe(q) ==
    [q EXCEPT !.pipe_fds = Pipe(q.open),
              !.open = @ \cup {Pipe(q.open)[1], Pipe(q.open)[2]},
              !.fdenv = EnvSet(<< Pipe(q.open)[1] >>)]

\* if (pstdX_fd) { if (pipe(stdX_fds)) return -EFAULT; }
StdioPipe(q, name, fail) ==
    IF q.ret # 0 \/ name \notin q.want THEN q
    ELSE IF fail = name THEN [q EXCEPT !.ret = -EFAULT]
    ELSE [q EXCEPT ![name] = Pipe(q.open),
                   !.open = @ \cup {Pipe(q.open)[1], Pipe(q.open)[2]}]

\* minijail_run_pid_pipes up to the fork: fail names the call that fails
RunSetup(old, want, fail) ==
    LET q == [ParentIdle EXCEPT !.old = old, !.env = old, !.want = want]
    IN IF fail = "strdup" THEN [q EXCEPT !.ret = -ENOMEM]
       ELSE IF fail = "setup_preload" THEN [q EXCEPT !.ret = -EFAULT]
       ELSE IF fail = "setup_pipe"
       THEN [q EXCEPT !.env = setup_preload(old), !.ret = -EFAULT]
       ELSE StdioPipe(StdioPipe(StdioPipe(setup_pipe([q EXCEPT !.env = setup_preload(old)]),
                                          "stdin", fail), "stdout", fail), "stderr", fail)

\* setup_pipe_end(fds, index): close(fds[1 - index]) and hand back fds[index];
\* the ends are numbered from 1 here
setup_pipe_end_KeepsOther(q, name, index) ==
    IF name \notin q.want THEN q
    ELSE [q EXCEPT !.out[name] = q[name][index]]

setup_pipe_end(q, name, index) ==
    IF name \notin q.want THEN q
    ELSE [q EXCEPT !.open = @ \ {q[name][3 - index]},
                   !.out[name] = q[name][index]]

\* minijail_to_fd: the cells written and the return value; short names the
\* write that stores less than asked
minijail_to_fd(p, short) ==
    LET sz == minijail_size(p)
        r == minijail_marshal(p, sz)
    IN IF sz = 0 THEN [ret |-> -EINVAL, sent |-> << >>]
       ELSE IF r.ret # 0 THEN [ret |-> r.ret, sent |-> << >>]
       ELSE IF short = "size" THEN [ret |-> -EFAULT, sent |-> << >>]
       ELSE IF short = "bytes" THEN [ret |-> -EFAULT, sent |-> << sz >> \o SubSeq(r.buf, 1, sz - 1)]
       ELSE [ret |-> 0, sent |-> << sz >> \o r.buf]

\* the builder calls of a host that launches with pipes
RunCalls ==
    << Call("namespace_pids", << >>, << >>, 0, 0, "ok"),
       Call("change_user", UserName, << >>, 1000, 1000, "ok"),
       BindRO >>

\* the call of minijail_run_pid_pipes, up to the fork
RunStart ==
    /\ hpc = "build"
    /\ \E old \in EnvValues, want \in SUBSET {"stdin", "stdout", "stderr"},
          fail \in {"", "strdup", "setup_preload", "setup_pipe", "stdin", "stdout", "stderr"} :
          /\ fail = "strdup" => old.set
          /\ fail \in {"stdin", "stdout", "stderr"} => fail \in want
          /\ \E q \in { RunSetup(old, want, fail) } :
                par' = [q EXCEPT !.pc = IF q.ret # 0 THEN "returned" ELSE "piped"]
    /\ hpc' = "running"
    /\ UNCHANGED << kinVars, pathVars, callVars, j, ncalls, added, marshalVars, launchVars, waitVars >>

\* fork or clone: child_pid < 0 ends in die
RunFork ==
    /\ par.pc = "piped"
    /\ \E ok \in BOOLEAN :
          /\ par' = IF ok THEN [par EXCEPT !.pc = "forked"] ELSE [par EXCEPT !.pc = die]
          /\ kid' = IF ok THEN [KidIdle EXCEPT !.pc = "child", !.open = par.open] ELSE kid
    /\ UNCHANGED << helper, orphans, pipe, usage, pathVars, callVars, j, ncalls, added, hpc, marshalVars, launchVars, waitVars >>

\* the parent after the fork: setenv or unsetenv of LD_PRELOAD, unsetenv of
\* the descriptor variable, j->initpid = child_pid
RunRestore ==
    /\ par.pc = "forked"
    /\ par' = [par EXCEPT !.env = IF par.old.set THEN EnvSet(par.old.val) ELSE EnvUnset,
                          !.fdenv = EnvUnset,
                          !.pc = "restored"]
    /\ j' = [j EXCEPT !.initpid = ChildPid]
    /\ UNCHANGED << kinVars, pathVars, callVars, ncalls, added, hpc, marshalVars, launchVars, waitVars >>

\* close(pipe_fds[0]), minijail_to_fd(j, pipe_fds[1]), close(pipe_fds[1]); a
\* failure ends in kill and die
RunSend ==
    /\ par.pc = "restored"
    /\ \E short \in {"", "size", "bytes"} :
          \E r \in { minijail_to_fd(j, short) } :
             par' = [par EXCEPT !.open = @ \ {par.pipe_fds[1], par.pipe_fds[2]},
                                !.sent = r.sent,
                                !.pc = IF r.ret # 0 THEN die ELSE "sent"]
    /\ UNCHANGED << kinVars, pathVars, callVars, j, ncalls, added, hpc, marshalVars, launchVars, waitVars >>

\* *pchild_pid = child_pid, the three setup_pipe_end calls and return 0
RunReturn ==
    /\ par.pc = "sent"
    /\ par' = [setup_pipe_end(setup_pipe_end(setup_pipe_end(par, "stdin", 2), "stdout", 1),
                              "stderr", 1)
               EXCEPT !.pid = ChildPid, !.ret = 0, !.pc = "returned"]
    /\ hpc' = "launched"
    /\ UNCHANGED << kinVars, pathVars, callVars, j, ncalls, added, marshalVars, launchVars, waitVars >>

\* setup_and_dupe_pipe_end that closes nothing
setup_and_dupe_pipe_end_KeepsOther(q, fds, index, fd, ok) ==
    IF q.pc = die THEN q
    ELSE IF ~ok THEN [q EXCEPT !.pc = die]
    ELSE [q EXCEPT !.std[fd + 1] = fds[index]]

\* setup_and_dupe_pipe_end(fds, index, fd) in the child q: close(fds[1 -
\* index]) and dup2(fds[index], fd); the ends are numbered from 1 here, and
\* the child dies when dup2 fails (ok is false)
setup_and_dupe_pipe_end(q, fds, index, fd, ok) ==
    IF q.pc = die THEN q
    ELSE IF ~ok THEN [q EXCEPT !.open = @ \ {fds[3 - index]}, !.pc = die]
    ELSE [q EXCEPT !.open = @ \ {fds[3 - index]}, !.std[fd + 1] = fds[index]]

\* the child after the fork: the pipe ends of the streams asked for become its
\* descriptors 0, 1 and 2; fail names the stream whose dup2 fails
KidPipes ==
    /\ kid.pc = "child"
    /\ \E fail \in {""} \cup par.want :
          LET a == IF "stdin" \in par.want
                   THEN setup_and_dupe_pipe_end(kid, par.stdin, 1, 0, fail # "stdin")
                   ELSE kid
              b == IF "stdout" \in par.want
                   THEN setup_and_dupe_pipe_end(a, par.stdout, 2, 1, fail # "stdout")
                   ELSE a
              c == IF "stderr" \in par.want
                   THEN setup_and_dupe_pipe_end(b, par.stderr, 2, 2, fail # "stderr")
                   ELSE b
          IN kid' = IF c.pc = die THEN c ELSE [c EXCEPT !.pc = "piped"]
    /\ UNCHANGED << helper, orphans, pipe, usage, par, pathVars, callVars, j, ncalls, added, hpc, marshalVars, launchVars,
                    waitVars >>

\* the child from minijail_preexec to execve: none of these calls closes a
\* descriptor, and with a pid namespace the fork leaves init with a copy of
\* all of them
KidExec ==
    /\ kid.pc = "piped"
    /\ kid' = [kid EXCEPT !.pc = "exec",
                          !.initopen = IF "pids" \in j.flags THEN kid.open ELSE {}]
    /\ UNCHANGED << helper, orphans, pipe, usage, par, pathVars, callVars, j, ncalls, added, hpc, marshalVars, launchVars,
                    waitVars >>

NextRun ==
    \/ Build(RunCalls) \/ RunStart \/ RunFork \/ RunRestore \/ RunSend \/ RunReturn
    \/ KidPipes \/ KidExec

SpecRun == Init /\ [][NextRun]_vars

(***************************************************************************)
(* Properties of the parent in minijail_run_pid_pipes (SpecRun).           *)
(***************************************************************************)
\* minijail_run_pid_pipes has returned 0 to the parent
RunReturnedZero == par.pc = "returned" /\ par.ret = 0

\* C20: in the parent of minijail_run_pid_pipes, once anything is written to
\* the policy pipe LD_PRELOAD has its value of before the call (unset when it
\* was unset) and j->initpid is the pid of the child; what is written is the
\* size followed by the marshalled Policy; and when the call returns 0 both
\* ends of the policy pipe are closed and every descriptor handed back is the
\* parent's end of its pipe (write end for stdin, read end for stdout and
\* stderr), open, with the other end closed.
C20_ParentPath ==
    /\ par.sent # << >> =>
          /\ par.env = par.old
          /\ j.initpid = ChildPid
    /\ par.pc \in {"sent", "returned"} /\ par.ret = 0 =>
          /\ par.sent = << minijail_size(j) >> \o minijail_marshal(j, minijail_size(j)).buf
          /\ Len(par.sent) = 1 + par.sent[1]
    /\ RunReturnedZero =>
          /\ par.open \cap {par.pipe_fds[1], par.pipe_fds[2]} = {}
          /\ par.pid = ChildPid
          /\ \A n \in par.want :
                /\ par.out[n] = par[n][IF n = "stdin" THEN 2 ELSE 1]
                /\ par.out[n] \in par.open
                /\ par[n][IF n = "stdin" THEN 1 ELSE 2] \notin par.open
          /\ \A n \in {"stdin", "stdout", "stderr"} \ par.want : par.out[n] = -1

\* the call has returned 0 to a host that had LD_PRELOAD set and asked for the
\* three pipes, with a Policy that holds a binding
C20_Witness ==
    /\ RunReturnedZero
    /\ par.old = EnvSet(<< 97 >>)
    /\ par.want = {"stdin", "stdout", "stderr"}
    /\ par.out["stdin"] = 6
    /\ j.binding_count = 1
    /\ Len(par.sent) > 1

\* the same with LD_PRELOAD unset before the call
C20_UnsetWitness ==
    /\ RunReturnedZero
    /\ par.old = EnvUnset
    /\ par.env = EnvUnset
    /\ par.want # {}

(***************************************************************************)
(* Properties of the builder and the strip functions (SpecPolicy).         *)
(***************************************************************************)
\* C16: in every Policy the host reaches from minijail_new with builder
\* calls, minijail_preenter and minijail_preexec, flags.pids set implies that
\* flags.vfs and flags.readonly are set.
C16_PidsImpliesVfsReadonly ==
    "pids" \in j.flags => {"vfs", "readonly"} \subseteq j.flags

\* minijail_namespace_pids was called on a Policy that a strip function had
\* cleared flags.chroot of
C16_Witness ==
    /\ lcall.op = "namespace_pids"
    /\ prev.chrootdir # NULL
    /\ "chroot" \notin prev.flags
    /\ "pids" \in j.flags

\* minijail_preexec was called on a Policy with flags.pids set
C16_StripWitness ==
    /\ lcall.op = "preexec"
    /\ "pids" \in prev.flags
    /\ {"vfs", "readonly"} \subseteq j.flags
    /\ "pids" \notin j.flags

\* the binding a call of minijail_bind names
CallBinding(c) == [src |-> c.s, dest |-> c.t, writeable |-> c.n]

\* C17: after a minijail_bind that returned 0 flags.vfs is set, binding_count
\* is one more than before and the list is the list before the call with the
\* new binding appended; a minijail_bind whose dest does not start with '/'
\* returns an error and leaves flags, list and binding_count as they were.
C17_Bind ==
    lcall.op = "bind" =>
        /\ lret = 0 =>
              /\ "vfs" \in j.flags
              /\ j.binding_count = prev.binding_count + 1
              /\ BindingList(j) = Append(BindingList(prev), CallBinding(lcall))
        /\ (lcall.t = << >> \/ lcall.t[1] # 47) =>
              /\ lret # 0
              /\ j.flags = prev.flags
              /\ BindingList(j) = BindingList(prev)
              /\ j.binding_count = prev.binding_count

\* a second binding was added behind a first one
C17_Witness ==
    /\ lcall.op = "bind"
    /\ lret = 0
    /\ prev.binding_count = 1
    /\ BindingList(j)[1] # BindingList(j)[2]

\* a minijail_bind with the dest "w" failed on a Policy that holds a binding
C17_ErrorWitness ==
    /\ lcall.op = "bind"
    /\ lcall.t[1] # 47
    /\ lret = -EINVAL
    /\ j.binding_count = 1

\* the builder calls that hand back an error code
FailingCall ==
    /\ lcall.op \in {"enter_chroot", "chroot_chdir", "bind", "change_user", "change_group",
                     "meta_file"}
    /\ lret # 0

\* C18 as stated: a call of minijail_enter_chroot, minijail_chroot_chdir,
\* minijail_bind, minijail_change_user, minijail_change_group or
\* minijail_meta_file that returns an error leaves the Policy as it was.
C18_ErrorsAtomicAll == FailingCall => j = prev

\* C18, what the code does: a failing call leaves the Policy as it was except
\* for minijail_change_user when strdup fails (uid and flags.uid are set, user
\* is NULL) and minijail_meta_file when fopen fails (flags.meta_file is set,
\* meta_file is NULL).
C18_ErrorsAtomic ==
    FailingCall =>
        IF lcall.op = "change_user" /\ lcall.r = "nomem"
        THEN j = [prev EXCEPT !.flags = @ \cup {"uid"}, !.uid = lcall.n, !.user = NULL]
        ELSE IF lcall.op = "meta_file"
        THEN j = [prev EXCEPT !.flags = @ \cup {"meta_file"}, !.meta_file = NULL]
        ELSE j = prev

\* minijail_meta_file failed and has set flags.meta_file
C18_Witness ==
    /\ FailingCall
    /\ lcall.op = "meta_file"
    /\ "meta_file" \in j.flags
    /\ "meta_file" \notin prev.flags
    /\ j.meta_file = NULL

\* a failing minijail_chroot_chdir has left the Policy unchanged
C18_AtomicWitness ==
    /\ FailingCall
    /\ lcall.op = "chroot_chdir"
    /\ prev.chrootdir # NULL
    /\ j = prev

\* the flags minijail_preexec keeps
KeptFlags ==
    {"vfs", "readonly", "stack_limit", "time_limit", "memory_limit", "output_limit", "meta_file"}

\* C19: minijail_preexec clears every flag except vfs, readonly, stack_limit,
\* time_limit, memory_limit, output_limit and meta_file, which keep the
\* values they had, and a second call changes nothing more.
C19_PreexecStrip ==
    lcall.op = "preexec" =>
        /\ j.flags \subseteq KeptFlags
        /\ \A f \in KeptFlags : f \in j.flags <=> f \in prev.flags
        /\ minijail_preexec(j) = j

\* minijail_preexec was called on a Policy with flags it keeps and flags it
\* clears
C19_Witness ==
    /\ lcall.op = "preexec"
    /\ prev.flags \cap KeptFlags # {}
    /\ prev.flags \ KeptFlags # {}
    /\ j.flags = prev.flags \cap KeptFlags

(***************************************************************************)
(* Properties of the path resolver (SpecPath).                             *)
(***************************************************************************)
\* the host path asked for: the longest dest that starts the path, replaced by
\* the src of its binding
ExpectedPath(p, path) ==
    LET bl == BindingList(p)
        best == BestBinding(bl, path)
    IN IF best = 0 THEN path
       ELSE bl[best].src \o SubSeq(path, Len(bl[best].dest) + 1, Len(path))

\* an absolute path under a binding whose host file is a regular file
ResolvesToFile ==
    /\ hpc = "resolved"
    /\ gpath[1] = 47
    /\ BestBinding(BindingList(j), gpath) # 0
    /\ Lstat(gfs, ExpectedPath(j, gpath)).kind = "reg"

\* the result is the host file, in a buffer that holds a NUL
ResolvedAsExpected ==
    /\ gret = 0
    /\ CStrlen(gbuf) < Len(gbuf)
    /\ Canon(BufStr(gbuf)) = ExpectedPath(j, gpath)

\* C14 as stated: a path under a binding whose host file is a regular file
\* resolves to that file (the longest dest that is a prefix replaced by its
\* src) and the buffer holds a NUL-terminated string; "/a/b/c" gives "/y/c"
\* and "/a/d" gives "/x/d" with the bindings /x -> /a and /y -> /a/b.
C14_LongestPrefixAll == ResolvesToFile => ResolvedAsExpected

\* C14, what the code does: the path resolves as stated when the src of the
\* binding (and its slash) is at least as long as the dest it replaces; when
\* it is shorter, the string keeps the tail of the old one and the call fails
\* unless a file of that name exists.
C14_LongestPrefix ==
    ResolvesToFile =>
        LET bl == BindingList(j)
            best == BestBinding(bl, gpath)
        IN IF Len(bl[best].src) + 1 >= Len(bl[best].dest)
           THEN ResolvedAsExpected
           ELSE /\ gret = 1
                /\ Canon(BufStr(gbuf)) # ExpectedPath(j, gpath)

\* "/a/b/c" was resolved with /y bound at /a/b and a regular file "/y/c": the
\* call failed and the buffer holds "/y//cc"
C14_Witness ==
    /\ ResolvesToFile
    /\ gpath = PathAB \o << 47, 99 >>
    /\ gret = 1
    /\ BufStr(gbuf) = PathY \o << 47, 47, 99, 99 >>

\* "/a/d" was resolved with /x bound at /a: the buffer names "/x/d"
C14_ShortWitness ==
    /\ ResolvesToFile
    /\ gpath = PathA \o << 47, 100 >>
    /\ gret = 0
    /\ BufStr(gbuf) = PathX \o << 47, 47, 100 >>

\* the files hold symbolic links that lead back to the first one
LinkCycle ==
    \E e1 \in gfs, e2 \in gfs :
        /\ e1.kind = "lnk"
        /\ e2.kind = "lnk"
        /\ Lstat(gfs, ExpectedPath(j, e1.target)) = e2
        /\ Lstat(gfs, ExpectedPath(j, e2.target)) = e1

\* the files hold a chain of symbolic links from the host file of the path to
\* a regular file
LinkChain ==
    \E e1 \in gfs, e2 \in gfs, e3 \in gfs :
        /\ hpc = "resolved"
        /\ gpath[1] = 47
        /\ BestBinding(BindingList(j), gpath) # 0
        /\ e1 = Lstat(gfs, ExpectedPath(j, gpath))
        /\ e1.kind = "lnk"
        /\ e2 = Lstat(gfs, ExpectedPath(j, e1.target))
        /\ e2.kind = "lnk"
        /\ e3 = Lstat(gfs, ExpectedPath(j, e2.target))
        /\ e3.kind = "reg"

\* the string the call left names something that is neither a regular file
\* nor a symbolic link
NamesOther ==
    /\ hpc = "resolved"
    /\ Lstat(gfs, BufStr(gbuf)).kind \notin {"reg", "lnk"}

\* C15 as stated: the call returns; a chain of symbolic links that ends at a
\* regular file gives success, a cycle of symbolic links gives failure and
\* not an unbounded recursion, and anything that is neither a regular file
\* nor a symbolic link gives failure.
C15_SymlinksAll ==
    hpc = "resolved" =>
        /\ gret \in {0, 1}
        /\ LinkChain => gret = 0
        /\ NamesOther => gret = 1

\* C15, what the code does: a chain gives success and anything else than a
\* regular file or a symbolic link gives failure; the call recurses without
\* return only on a cycle of symbolic links.
C15_Symlinks ==
    hpc = "resolved" =>
        /\ LinkChain => gret = 0
        /\ (NamesOther /\ gret # -1) => gret = 1
        /\ gret = -1 => LinkCycle

\* a path whose host file is a symbolic link of a cycle was resolved: the
\* call is still recursing after MaxDepth calls
C15_Witness ==
    /\ hpc = "resolved"
    /\ LinkCycle
    /\ Lstat(gfs, ExpectedPath(j, gpath)).kind = "lnk"
    /\ gret = -1

\* a chain of two symbolic links was followed to its regular file
C15_ChainWitness ==
    /\ LinkChain
    /\ gret = 0
    /\ Lstat(gfs, BufStr(gbuf)).kind = "reg"

\* a directory made the call fail
C15_OtherWitness ==
    /\ hpc = "resolved"
    /\ Lstat(gfs, BufStr(gbuf)).kind = "dir"
    /\ gret = 1

(***************************************************************************)
(* Properties of the marshaller and the unmarshaller (SpecMarshal).        *)
(***************************************************************************)
\* the image minijail_marshal writes for p into a buffer of minijail_size(p) cells
ImageOf(p) == [head |-> minijail_marshal(p, minijail_size(p)).buf, pad |-> 0]

\* minijail_unmarshal has been applied to the whole image of j
RoundTripped == hpc = "unmarshalled" /\ stream = ImageOf(j) /\ ulen = SLen(stream)

\* two pointers agree up to identity: both NULL, or both set with equal pointees
SamePointee(a, b) == (a.addr = 0) = (b.addr = 0) /\ a.val = b.val

\* p and q agree on everything but the filter program and the meta sink
SameButFilter(p, q) ==
    /\ p.flags = q.flags
    /\ p.uid = q.uid /\ p.gid = q.gid /\ p.usergid = q.usergid
    /\ p.caps = q.caps
    /\ p.stack_limit = q.stack_limit /\ p.time_limit = q.time_limit
    /\ p.memory_limit = q.memory_limit /\ p.output_limit = q.output_limit
    /\ p.filter_len = q.filter_len
    /\ SamePointee(p.user, q.user)
    /\ SamePointee(p.chrootdir, q.chrootdir)
    /\ SamePointee(p.chdir, q.chdir)
    /\ p.binding_count = q.binding_count
    /\ BindingList(p) = BindingList(q)

\* C4 (as stated): the round trip succeeds and yields a Policy equal to the
\* original in every flag, id, cap, limit, the filter length and instructions,
\* the three strings, binding_count and the binding list, for every Policy the
\* builder can produce.
C4_RoundTripAll ==
    RoundTripped =>
        /\ uret = 0
        /\ SameButFilter(j, k)
        /\ SamePointee(j.filter_prog, k.filter_prog)

\* C4 (amended): the round trip succeeds and preserves every flag, id, cap,
\* limit, the filter length, the three strings, binding_count and the binding
\* list; the filter instructions are preserved when the seccomp_filter flag is
\* set, and without the flag the result has no filter program.
C4_RoundTrip ==
    RoundTripped =>
        /\ uret = 0
        /\ SameButFilter(j, k)
        /\ "seccomp_filter" \in j.flags => SamePointee(j.filter_prog, k.filter_prog)
        /\ "seccomp_filter" \notin j.flags => k.filter_prog = NULL

\* a Policy with a filter program, the flag and a binding has made the round trip
C4_Witness ==
    /\ RoundTripped
    /\ uret = 0
    /\ "seccomp_filter" \in j.flags
    /\ j.filter_prog.addr # 0
    /\ k.filter_prog.val = j.filter_prog.val
    /\ j.binding_count > 0

\* C5: minijail_marshal reports success exactly when the capacity is at least
\* minijail_size; it stores exactly min(capacity, size) cells, never more than
\* the capacity.
C5_SizeAgreement ==
    hpc = "marshalled" =>
        /\ (mret = 0) <=> (avail >= minijail_size(j))
        /\ written = Min(avail, minijail_size(j))
        /\ written <= avail

\* a Policy with a binding was marshalled into a buffer one cell too small
C5_Witness ==
    /\ hpc = "marshalled"
    /\ j.binding_count > 0
    /\ avail = minijail_size(j) - 1
    /\ mret = 1
    /\ written = avail

\* the fixed record found in a buffer
RecordOf(s) == CopyFixed(s)

\* the string sections the fixed record announces
PresentStrings(s) ==
    Cardinality({ f \in {"user", "chrootdir", "chdir"} : RecordOf(s)[f].addr # 0 })

\* a string section is present and there is no NUL for it in the bytes that remain
MissingNul(s, n) == NulsAfterFixed(s, n) < PresentStrings(s)

\* the instruction count exceeds 65535 or needs more bytes than remain
BadInstructionCount(s, n) ==
    \/ RecordOf(s).filter_len > USHRT_MAX
    \/ RecordOf(s).filter_len * SizeofSockFilter > n - SizeofJ

\* the fixed record announces a filter section
FilterPresent(s) == "seccomp_filter" \in RecordOf(s).flags

\* C6 (as stated): minijail_unmarshal reads no cell beyond the given length and
\* returns an error for a buffer shorter than the fixed record, a strict prefix
\* of a valid image, a present string section without NUL, and an instruction
\* count above 65535 or larger than the bytes that remain.
C6_RejectsAll ==
    hpc = "unmarshalled" =>
        /\ hiRead <= ulen
        /\ ulen < SizeofJ => uret # 0
        /\ (stream = ImageOf(j) /\ ulen < SLen(stream)) => uret # 0
        /\ (ulen >= SizeofJ /\ MissingNul(stream, ulen)) => uret # 0
        /\ (ulen >= SizeofJ /\ BadInstructionCount(stream, ulen)) => uret # 0

\* C6 (amended): as stated, the instruction count being judged when the stream
\* carries the seccomp_filter flag, that is when it has a filter section.
C6_Rejects ==
    hpc = "unmarshalled" =>
        /\ hiRead <= ulen
        /\ ulen < SizeofJ => uret # 0
        /\ (stream = ImageOf(j) /\ ulen < SLen(stream)) => uret # 0
        /\ (ulen >= SizeofJ /\ MissingNul(stream, ulen)) => uret # 0
        /\ (ulen >= SizeofJ /\ FilterPresent(stream) /\ BadInstructionCount(stream, ulen))
              => uret # 0

\* a stream that announces 65536 instructions, and holds them, was rejected
C6_Witness ==
    /\ hpc = "unmarshalled"
    /\ FilterPresent(stream)
    /\ RecordOf(stream).filter_len > USHRT_MAX
    /\ RecordOf(stream).filter_len * SizeofSockFilter <= ulen - SizeofJ
    /\ ~MissingNul(stream, ulen)
    /\ uret = -EINVAL

\* the pointer members of struct minijail
PointerFields ==
    {"user", "chrootdir", "chdir", "filter_prog", "bindings_head", "bindings_tail"}

\* C7: after a successful minijail_unmarshal no pointer member holds an address
\* taken from the stream, and the meta sink is NULL.
C7_NoStreamPointers ==
    (hpc = "unmarshalled" /\ uret = 0) =>
        /\ \A f \in PointerFields : k[f].org # "stream"
        /\ k.meta_file = NULL

\* a stream with a user, a binding and a meta sink address was unmarshalled
C7_Witness ==
    /\ hpc = "unmarshalled"
    /\ uret = 0
    /\ RecordOf(stream).user.org = "stream"
    /\ RecordOf(stream).bindings_head.org = "stream"
    /\ RecordOf(stream).meta_file.org = "stream"
    /\ k.user.org = "heap"
    /\ k.bindings_head.org = "heap"

(***************************************************************************)
(* Properties of minijail_wait (SpecWait).                                 *)
(***************************************************************************)
\* the wait status the target has left
TargetStatus == IF HasInit THEN tstatus ELSE cstatus

\* the target has run and ended, and minijail_wait has returned
Waited == hpc = "waited" /\ cpc = "done"

\* the exit-code mapping of the claim for a target status st
Mapped(st) ==
    IF WIFEXITED(st) THEN WEXITSTATUS(st)
    ELSE IF WTERMSIG(st) = SIGSYS THEN MINIJAIL_ERR_JAIL
    ELSE 128 + WTERMSIG(st)

\* C3: with and without a pid namespace, minijail_wait returns n for a target
\* that exited with n, 128+s for a target killed by a signal s other than
\* SIGSYS, and MINIJAIL_ERR_JAIL for a target killed by SIGSYS.
C3_ExitCodeMappingAll == Waited => wret = Mapped(TargetStatus)

\* what minijail_wait returns instead: without a pid namespace the mapping of
\* C3; with a pid namespace n for a target that exited with n while the alarm
\* of init has not fired, and MINIJAIL_ERR_INIT for a target killed by any
\* signal and whenever the alarm of init has fired.
C3_ExitCodeMapping ==
    Waited =>
        IF ~HasInit THEN wret = Mapped(TargetStatus)
        ELSE IF WIFEXITED(TargetStatus) /\ signal_override = 0
             THEN wret = WEXITSTATUS(TargetStatus)
             ELSE wret = MINIJAIL_ERR_INIT

\* a target in a pid namespace was killed by SIGSYS and minijail_wait returned
\* MINIJAIL_ERR_INIT
C3_Witness ==
    /\ Waited
    /\ HasInit
    /\ TargetStatus = SignalStatus(SIGSYS)
    /\ signal_override = 0
    /\ wret = MINIJAIL_ERR_INIT

\* the alarm of init has fired
AlarmFired == signal_override = SIGXCPU

\* the last line of the meta sink is signal:24
MetaSaysXCPU ==
    /\ meta # << >>
    /\ meta[Len(meta)].key = "signal"
    /\ meta[Len(meta)].val = SIGXCPU

\* C11: in a launch with a pid namespace, by run or by run_static, once the
\* alarm of init has fired the target has been killed through its process
\* group (it does not run on, so that init can end), minijail_wait returns
\* MINIJAIL_ERR_INIT and the meta sink ends with signal:24; this for every
\* interleaving of the alarm with the setup of the target.
C11_TimeoutAll ==
    (HasInit /\ AlarmFired) =>
        /\ tstatus # -1
        /\ hpc = "waited" => wret = MINIJAIL_ERR_INIT
        /\ (ipc = "exited" /\ "meta_file" \in cj.flags) => MetaSaysXCPU

\* what holds of the alarm: the result of minijail_wait and the meta line are
\* those of C11 once init has ended
C11_Timeout ==
    (HasInit /\ AlarmFired) =>
        /\ hpc = "waited" => wret = MINIJAIL_ERR_INIT
        /\ (ipc = "exited" /\ "meta_file" \in cj.flags) => MetaSaysXCPU

\* the alarm of init has fired in a launch by minijail_run_static and the
\* target runs on
C11_Witness ==
    /\ mode = "static"
    /\ HasInit
    /\ AlarmFired
    /\ cpc = "exec"
    /\ tstatus = -1

\* init has reached the end of its wait loop and has left, with a meta sink
InitDoneMeta == ipc = "exited" /\ "meta_file" \in cj.flags

\* C12: when init has finished with the meta_file flag set, the meta sink
\* holds exactly four LF-terminated lines, time, time-wall, mem and then one
\* of signal and status; it is the signal line exactly when the alarm has
\* fired or the target did not exit normally, and otherwise the status line
\* with the exit status of the target. Nothing is written before.
C12_MetaFormat ==
    /\ InitDoneMeta =>
          /\ Len(meta) = 4
          /\ \A i \in 1..4 : meta[i].end = 10
          /\ << meta[1].key, meta[2].key, meta[3].key >> = << "time", "time-wall", "mem" >>
          /\ IF AlarmFired \/ ~WIFEXITED(tstatus)
             THEN meta[4].key = "signal"
             ELSE meta[4].key = "status" /\ meta[4].val = WEXITSTATUS(tstatus)
    /\ ipc # "exited" => meta = << >>

\* init has written the status line of a target that left with exit(42)
C12_Witness ==
    /\ InitDoneMeta
    /\ ~AlarmFired
    /\ tstatus = ExitStatus(42)
    /\ meta[4].key = "status"
    /\ meta[4].val = 42

\* the exit code the claim allows init for the target status tstatus
InitCodeAllowed(code) ==
    IF AlarmFired \/ ~WIFEXITED(tstatus) THEN code = MINIJAIL_ERR_INIT
    ELSE code \in {WEXITSTATUS(tstatus), MINIJAIL_ERR_INIT}

\* C13: on every path by which init terminates (end of the wait loop, alarm
\* fired, SIGTERM received at any time) its exit code is WEXITSTATUS of the
\* target or MINIJAIL_ERR_INIT, and it is MINIJAIL_ERR_INIT whenever the
\* target was signalled or the alarm has fired.
C13_InitExitCodeAll ==
    ipc \in {"exited", "termed"} => InitCodeAllowed(WEXITSTATUS(cstatus))

\* what holds: the exit code is as C13 says when init leaves at the end of its
\* wait loop, and it is the low byte of the wait status stored in
\* init_exitstatus when init_term ends init
C13_InitExitCode ==
    /\ ipc = "exited" => InitCodeAllowed(WEXITSTATUS(cstatus))
    /\ ipc = "termed" => WEXITSTATUS(cstatus) = init_exitstatus % 256

\* init had reaped a target that left with exit(1), then received SIGTERM and
\* left with exit code 0
C13_Witness ==
    /\ ipc = "termed"
    /\ tstatus = ExitStatus(1)
    /\ init_exitstatus = tstatus
    /\ ~AlarmFired
    /\ WEXITSTATUS(cstatus) = 0

(***************************************************************************)
(* Properties of the jail entry and of the launch paths (Spec).            *)
(***************************************************************************)
\* the positions of the trace whose call is one of names
At(names) == { i \in 1..Len(trace) : trace[i].op \in names }

\* the positions of the calls minijail_enter has issued
EnterSeg == 1..(IF enterEnd = -1 THEN Len(trace) ELSE enterEnd)

\* the positions of the calls issued after minijail_enter has returned
AfterEnter == IF enterEnd = -1 THEN {} ELSE (enterEnd + 1)..Len(trace)

MountOps == {"mount_bind", "mount_bind_ro", "mount_tmp", "umount_proc", "mount_proc"}
IdentityOps == {"initgroups", "setgroups", "setresgid", "setresuid"}
CapabilityOps == {"cap_get_proc", "cap_clear_flag", "cap_last_cap", "cap_set_flag",
                  "cap_clear_one", "capset", "prctl_capbset_drop"}
PrctlOps == {"prctl_keepcaps", "prctl_securebits", "prctl_no_new_privs",
             "prctl_seccomp_filter", "prctl_seccomp_strict"}
LimitOps == {"setrlimit_as", "setrlimit_fsize", "setrlimit_core", "setrlimit_stack",
             "setrlimit_cpu"}

\* the jail-entry steps whose failure must end the process
JailEntrySteps ==
    {"unshare_newns", "unshare_newnet", "chroot", "chdir"}
        \cup MountOps \cup PrctlOps \cup IdentityOps \cup CapabilityOps \cup LimitOps

\* C1: when a jail-entry step has failed, the process has terminated at that
\* step: minijail_enter has not returned after it and no execve was issued.
C1_FailClosed ==
    failed \in JailEntrySteps =>
        /\ cpc = die
        /\ At({"execve"}) = {}
        /\ trace[Len(trace)].op = failed
        /\ enterEnd = -1 \/ Len(trace) > enterEnd

\* setresuid has failed in the child of a launch, which is dead
C1_Witness ==
    /\ mode \in {"run", "static"}
    /\ failed = "setresuid"
    /\ enterEnd = -1
    /\ cpc = die

\* C2: in minijail_enter, with no_new_privs every identity and capability
\* operation comes before the installation of the seccomp filter, and without
\* no_new_privs every one of them comes after it.
C2_NoNewPrivsOrder ==
    \A i \in EnterSeg \cap At(IdentityOps \cup {"capset", "prctl_capbset_drop"}) :
        \A f \in EnterSeg \cap At({"prctl_seccomp_filter"}) :
            IF "no_new_privs" \in cj.flags THEN i < f ELSE f < i

\* minijail_enter has changed the uid and then installed the filter, with
\* no_new_privs on
C2_Witness ==
    /\ cpc = "entered"
    /\ "no_new_privs" \in cj.flags
    /\ At({"setresuid"}) # {}
    /\ At({"prctl_seccomp_filter"}) # {}
    /\ \A i \in At({"setresuid"}) : \A f \in At({"prctl_seccomp_filter"}) : i < f

\* the place of a call in the filesystem layering, 0 when it has none
Layer(op) ==
    CASE op = "unshare_newns" -> 1
      [] op = "unshare_newnet" -> 2
      [] op \in {"mount_bind", "mount_bind_ro"} -> 3
      [] op = "chroot" -> 4
      [] op = "chdir" -> 5
      [] op = "mount_tmp" -> 6
      [] op \in {"umount_binfmt_misc", "umount_proc", "mount_proc"} -> 7
      [] OTHER -> 0

\* the layering calls at the positions S are issued in the order of the layers
Layered(S) ==
    \A a, b \in S :
        (a < b /\ Layer(trace[a].op) # 0 /\ Layer(trace[b].op) # 0)
            => Layer(trace[a].op) <= Layer(trace[b].op)

\* execve, when issued, is the last call
ExecveLast == \A i \in At({"execve"}) : i = Len(trace)

\* C8 (as stated): in every launch path the layering steps of the child are
\* issued in the order unshare mount namespace, unshare network namespace, bind
\* mounts, chroot, chdir, tmpfs, /proc remount, all before execve; no chroot
\* follows the /proc remount.
C8_LayeringOrderAll ==
    mode \in {"run", "static"} =>
        /\ Layered(1..Len(trace))
        /\ ExecveLast

\* C8 (amended): the layering steps minijail_enter issues are in that order;
\* after minijail_enter has returned the launch path issues, of the layering
\* steps, only the bind mounts, chroot and chdir of its own enter_chroot, in
\* this order, and all before execve.
C8_LayeringOrder ==
    /\ Layered(EnterSeg)
    /\ Layered(AfterEnter)
    /\ \A i \in AfterEnter : Layer(trace[i].op) \in {0, 3, 4, 5}
    /\ ExecveLast

\* a launch by minijail_run_pid_pipes has remounted /proc in minijail_enter,
\* then changed the root, and has reached execve
C8_Witness ==
    /\ mode = "run"
    /\ cpc = "exec"
    /\ \E a \in EnterSeg \cap At({"mount_proc"}) : \E b \in AfterEnter \cap At({"chroot"}) : a < b
    /\ At({"execve"}) # {}

\* the mounts bind_one has to issue for the bindings bs under the root dir
RECURSIVE ExpectedMounts(_, _)
ExpectedMounts(bs, dir) ==
    IF bs = << >> THEN << >>
    ELSE LET b == Head(bs)
             m == [op |-> "mount_bind", src |-> b.src, dest |-> dir \o b.dest]
         IN << m >>
                \o (IF b.writeable = 0 THEN << [m EXCEPT !.op = "mount_bind_ro"] >> ELSE << >>)
                \o ExpectedMounts(Tail(bs), dir)

\* the bind mounts and changes of root of the trace, as (op, src, dest)
MountsAndChroots ==
    LET IsOne(o) == o.op \in {"mount_bind", "mount_bind_ro", "chroot"}
        sel == SelectSeq(trace, IsOne)
    IN [i \in 1..Len(sel) |-> [op |-> sel[i].op, src |-> sel[i].src, dest |-> sel[i].dest]]

\* what one run of enter_chroot has to show in MountsAndChroots
ChrootBlock ==
    ExpectedMounts(added, cj.chrootdir.val)
        \o << [op |-> "chroot", src |-> << >>, dest |-> cj.chrootdir.val] >>

\* s is a prefix of t
IsPrefix(s, t) == Len(s) <= Len(t) /\ s = SubSeq(t, 1, Len(s))

\* the image the parent of minijail_run_pid_pipes has sent, unmarshalled
Received == minijail_unmarshal(minijail_new, stream, SLen(stream), 0)

\* the bind mounts of the trace, as (op, src, dest)
BindMounts ==
    LET IsOne(o) == o.op \in {"mount_bind", "mount_bind_ro"}
    IN SelectSeq(MountsAndChroots, IsOne)

\* C9: the bind mounts are issued in the order in which the bindings were
\* added, the read-only remount of a binding right after its own mount and
\* before the next binding's mount, and every bind mount before chroot; the
\* list a receiver unmarshals from the marshalled Policy is in the order of
\* addition too.
C9_BindOrderAll ==
    /\ IsPrefix(BindMounts, ExpectedMounts(added, cj.chrootdir.val))
    /\ \A m \in At({"mount_bind", "mount_bind_ro"}) : \A c \in At({"chroot"}) : m < c
    /\ BindingList(j) = added
    /\ (mode = "run" /\ cpc = "child") =>
           (Received.ret = 0 /\ BindingList(Received.j) = added)

\* what holds of every single run of enter_chroot: its bind mounts are in the
\* order of addition, each read-only remount right after its own mount, and
\* its chroot after all of them; a launch shows one run or two.
C9_BindOrder ==
    /\ \/ IsPrefix(MountsAndChroots, ChrootBlock)
       \/ /\ Len(MountsAndChroots) > Len(ChrootBlock)
          /\ IsPrefix(ChrootBlock, MountsAndChroots)
          /\ IsPrefix(SubSeq(MountsAndChroots, Len(ChrootBlock) + 1, Len(MountsAndChroots)),
                      ChrootBlock)
    /\ BindingList(j) = added
    /\ (mode = "run" /\ cpc = "child") =>
           (Received.ret = 0 /\ BindingList(Received.j) = added)

\* minijail_run_static has mounted a binding after it has changed the root
C9_Witness ==
    /\ mode = "static"
    /\ added # << >>
    /\ \E c \in At({"chroot"}) : \E m \in At({"mount_bind"}) : c < m

\* two bindings, the read-only one first, were mounted and the root changed
C9_RunWitness ==
    /\ mode = "run"
    /\ Len(added) = 2
    /\ added[1].writeable = 0
    /\ added[2].writeable # 0
    /\ MountsAndChroots = ChrootBlock
    /\ cpc = "exec"

\* the calls that set a jail up
SetupOps ==
    MountOps \cup IdentityOps \cup CapabilityOps \cup LimitOps
        \cup {"chroot", "chdir", "fork", "prctl_capbset_drop"}

\* C10: once prctl(PR_SET_SECCOMP, 1) has been issued the process
\* issues no further mount, chroot, chdir, fork, setrlimit, identity or
\* capability operation, in every launch path.
C10_StrictSeccompLast ==
    \A s \in At({"prctl_seccomp_strict"}) : \A i \in At(SetupOps) : i < s

\* the number of calls named op with argument arg in the trace
CountOf(op, arg) == Cardinality({ i \in At({op}) : trace[i].arg = arg })

\* a launch with flags.chroot has reached execve
ChrootedExec ==
    /\ mode \in {"run", "static"}
    /\ "chroot" \in j.flags
    /\ cpc = "exec"

\* C24 as stated: in every launch with chroot the process that reaches execve
\* has issued chroot(chrootdir) exactly once and the bind mount of each
\* binding exactly once.
C24_ChrootOnceAll ==
    ChrootedExec =>
        /\ CountOf("chroot", 0) = 1
        /\ \A i \in 1..Len(added) : CountOf("mount_bind", i) = 1

\* C24, what the code does: once each in minijail_run_pid_pipes, twice each in
\* minijail_run_static (in minijail_enter and again in the launcher).
C24_ChrootOnce ==
    ChrootedExec =>
        LET n == IF mode = "run" THEN 1 ELSE 2
        IN /\ CountOf("chroot", 0) = n
           /\ \A i \in 1..Len(added) : CountOf("mount_bind", i) = n

\* minijail_run_static has reached execve after two chroot calls and two
\* mounts of its binding
C24_Witness ==
    /\ ChrootedExec
    /\ mode = "static"
    /\ Len(added) = 1
    /\ CountOf("chroot", 0) = 2
    /\ CountOf("mount_bind", 1) = 2

\* minijail_run_pid_pipes with a pid namespace has reached execve after one
\* chroot call
C24_RunWitness ==
    /\ ChrootedExec
    /\ mode = "run"
    /\ "pids" \in j.flags
    /\ Len(added) = 1
    /\ CountOf("chroot", 0) = 1

\* minijail_enter has returned in a process that keeps capabilities
CapsDropped ==
    /\ mode = "enter"
    /\ cpc = "entered"
    /\ "caps" \in cj.flags

\* the capabilities of the mask that the kernel knows
Requested == { i \in 0..last_cap : CapBit(cj.caps, i) }

\* the capabilities the three sets hold after the calls of the trace: those
\* raised in the three sets and not cleared from them afterwards
FinalCaps ==
    { i \in 0..(last_cap + 1) :
        /\ CountOf("cap_set_flag", i) = 3
        /\ CountOf("cap_clear_one", i) = 0 }

\* C25: when drop_caps has completed for a mask, the effective, permitted and
\* inheritable sets hold exactly the capabilities i <= last_cap of the mask;
\* every capability i <= last_cap that is not in the mask has left the
\* bounding set; every such drop comes after the capset that raised
\* CAP_SETPCAP and before CAP_SETPCAP is cleared; and the capset that applies
\* the clearing is the last capability operation.
C25_DropCaps ==
    CapsDropped =>
        /\ FinalCaps = Requested
        /\ \A i \in 0..last_cap : (CountOf("prctl_capbset_drop", i) = 1) <=> (i \notin Requested)
        /\ \A i \in At({"cap_clear_one"}) : trace[i].arg = CAP_SETPCAP
        /\ \A d \in At({"prctl_capbset_drop"}) :
              /\ \E c \in At({"capset"}) :
                    /\ c < d
                    /\ \E s \in At({"cap_set_flag"}) : s < c /\ trace[s].arg = CAP_SETPCAP
              /\ \A c \in At({"cap_clear_one"}) : d < c
              /\ \E c \in At({"capset"}) : d < c
        /\ \A i \in At(CapabilityOps) : \A c \in At({"cap_clear_one"}) :
              i > c => trace[i].op \in {"cap_clear_one", "capset"}
        /\ \A i \in At(CapabilityOps) : \E c \in At({"capset"}) : i <= c

\* drop_caps has completed for a mask without CAP_SETPCAP that holds a
\* capability the kernel knows and one it does not know
C25_Witness ==
    /\ CapsDropped
    /\ CAP_SETPCAP \notin Requested
    /\ Requested # {}
    /\ CapBit(cj.caps, last_cap + 1)
    /\ At({"prctl_capbset_drop"}) # {}
    /\ At({"cap_clear_one"}) # {}

\* drop_caps has completed for a mask with CAP_SETPCAP
C25_KeepWitness ==
    /\ CapsDropped
    /\ CAP_SETPCAP \in Requested
    /\ At({"prctl_capbset_drop"}) # {}

\* minijail_enter has returned: drop_ugid has run on the Policy cj
UgidDropped == cpc \in {"entered", "forked", "exec"} /\ enterEnd # -1

\* the number of calls named op that minijail_enter has issued
EnterCount(op) == Cardinality(EnterSeg \cap At({op}))

\* C26 as stated: drop_ugid calls initgroups exactly when flags.usergroups is
\* set; otherwise it clears the supplementary groups exactly when flags.uid
\* or flags.gid is set; with the three flags clear no group or identity call
\* is issued.
C26_GroupsAll ==
    UgidDropped =>
        /\ EnterCount("initgroups") = IF "usergroups" \in cj.flags THEN 1 ELSE 0
        /\ EnterCount("setgroups") =
              IF "usergroups" \notin cj.flags /\ cj.flags \cap {"uid", "gid"} # {} THEN 1 ELSE 0
        /\ cj.flags \cap {"usergroups", "uid", "gid"} = {} => EnterSeg \cap At(IdentityOps) = {}

\* C26, what the code does: the supplementary groups are cleared when the
\* uid or the gid member is not 0, whatever the flags are.
C26_Groups ==
    UgidDropped =>
        /\ EnterCount("initgroups") = IF "usergroups" \in cj.flags THEN 1 ELSE 0
        /\ EnterCount("setgroups") =
              IF "usergroups" \notin cj.flags /\ (cj.uid # 0 \/ cj.gid # 0) THEN 1 ELSE 0
        /\ EnterCount("setresgid") = IF "gid" \in cj.flags THEN 1 ELSE 0
        /\ EnterCount("setresuid") = IF "uid" \in cj.flags THEN 1 ELSE 0

\* the child of minijail_run_pid_pipes has cleared the supplementary groups
\* with the three flags clear after minijail_preexec
C26_Witness ==
    /\ UgidDropped
    /\ mode = "run"
    /\ "uid" \in j.flags
    /\ cj.flags \cap {"usergroups", "uid", "gid"} = {}
    /\ EnterCount("setgroups") = 1

\* initgroups was called for a Policy with flags.usergroups
C26_InheritWitness ==
    /\ UgidDropped
    /\ "usergroups" \in cj.flags
    /\ EnterCount("initgroups") = 1
    /\ EnterCount("setgroups") = 0

\* whether some call named op comes before position i of the trace
Before(op, i) == \E m \in At({op}) : m < i

FirstAt(op) == IF At({op}) = {} THEN 0 ELSE CHOOSE i \in At({op}) : \A m \in At({op}) : i <= m

\* C22: the launcher clones with CLONE_NEWPID | SIGCHLD exactly when the
\* Policy asks for a pid namespace and forks otherwise; with a pid namespace
\* the first child forks exactly once, stays behind as init and issues no
\* execve, which only the process made by that fork reaches; without a pid
\* namespace the first child reaches execve itself and there is no init
C22_Lifecycle ==
    mode \in {"run", "static"} =>
        /\ trace[1] = (IF "pids" \in j.flags THEN Op("clone_newpid", 0)
                       ELSE Op("launcher_fork", 0))
        /\ At({"clone_newpid", "launcher_fork"}) = {1}
        /\ Cardinality(At({"execve"})) <= 1
        /\ IF "pids" \in j.flags
           THEN /\ Cardinality(At({"fork"})) <= 1
                /\ cpc \in {"child", "entered"} => At({"fork", "execve"}) = {} /\ ipc = "none"
                /\ cpc \in {"forked", "exec"} =>
                      /\ Cardinality(At({"fork"})) = 1
                      /\ ipc = "wait"
                      /\ \A e \in At({"execve"}) : FirstAt("fork") < e
                /\ At({"execve"}) # {} => At({"fork"}) # {} /\ ipc = "wait"
           ELSE /\ At({"fork"}) = {}
                /\ ipc = "none"
                /\ cpc # "forked"

\* a launch with a pid namespace whose grandchild has reached execve under init
C22_Witness ==
    /\ mode = "run"
    /\ "pids" \in j.flags
    /\ cpc = "exec"
    /\ ipc = "wait"
    /\ trace[1].op = "clone_newpid"
    /\ Cardinality(At({"fork"})) = 1

\* a launch without a pid namespace whose first child has reached execve
C22_DirectWitness ==
    /\ mode = "run"
    /\ "pids" \notin j.flags
    /\ cpc = "exec"
    /\ ipc = "none"
    /\ trace[1].op = "launcher_fork"

\* the calls that allocate or release heap memory
HeapOps == {"malloc", "free", "asprintf", "strdup"}

\* C23: between the clone or fork and execve the child allocates and releases
\* no heap memory (malloc, free, asprintf, strdup)
C23_AsyncSignalSafe ==
    mode \in {"run", "static"} => At(HeapOps) = {}

\* a child of minijail_run_pid_pipes that released the saved environment,
\* allocated the destination of a bind mount and reached execve
C23_Witness ==
    /\ mode = "run"
    /\ cpc = "exec"
    /\ At({"free"}) # {}
    /\ \E i \in At({"asprintf"}), e \in At({"execve"}) : 1 < i /\ i < e

\* a child of minijail_run_static that allocated on its way to execve
C23_StaticWitness ==
    /\ mode = "static"
    /\ cpc = "exec"
    /\ At({"asprintf"}) # {}

C30_EarlyWitness ==
    /\ HasInit
    /\ ipc = "wait"
    /\ cpc = "exec"
    /\ orphans.reaped > 0

\* init has reaped another process after the grandchild
C30_LateWitness ==
    /\ HasInit
    /\ ipc = "reaped"
    /\ orphans = [live |-> 0, reaped |-> 1]
    /\ tstatus = SignalStatus(SIGKILL)

\* C29: the SIGALRM armed by ualarm in setup_limits goes to init and never
\* ends the target, and the limits are set only after init has been forked off
C29_AlarmToInit ==
    (mode \in {"run", "static"} /\ HasInit) =>
        /\ tstatus # SignalStatus(SIGALRM)
        /\ \A i \in At(LimitOps \cup {"ualarm"}) : At({"fork"}) # {} /\ FirstAt("fork") < i

\* the part of C29 the code keeps: with a pid namespace setup_limits runs in
\* the process made by the second fork, so no limit and no timer is set in init
C29_LimitsAfterFork ==
    (mode \in {"run", "static"} /\ HasInit) =>
        \A i \in At(LimitOps \cup {"ualarm"}) : At({"fork"}) # {} /\ FirstAt("fork") < i

\* a target under init that was ended by the SIGALRM of ualarm while init,
\* whose own alarm has not fired, still waits
C29_Witness ==
    /\ mode = "static"
    /\ HasInit
    /\ At({"ualarm"}) # {}
    /\ tstatus = SignalStatus(SIGALRM)
    /\ ipc = "wait"
    /\ signal_override = 0

\* t milliseconds in whole seconds, rounded up
CeilSeconds(t) == t \div 1000 + (IF t % 1000 = 0 THEN 0 ELSE 1)

\* whether the calls of the trace carry the values C28 states for the limit t
TimeArithmetic(t) ==
    /\ \A i \in At({"setrlimit_cpu"}) :
          /\ trace[i].arg.cur = CeilSeconds(t)
          /\ trace[i].arg.max = trace[i].arg.cur + 1
    /\ \A i \in At({"ualarm"}) :
          LET product == MulSmall(Limbs(t), 1000)
          IN FitsInt(product) /\ trace[i].arg = product.hi * Limb + product.lo
    /\ \A i \in At({"alarm"}) : trace[i].arg = CeilSeconds(t) + 1

\* C28: for every time limit t >= 0 of an int, RLIMIT_CPU gets the soft limit
\* ceil(t / 1000) and the hard limit soft + 1, ualarm gets exactly t * 1000
\* without overflow, and the alarm of init is armed for one second more than
\* the soft limit
C28_Arithmetic == mode = "limits" => TimeArithmetic(j.time_limit)

\* what the code computes: the values of C28 as long as t * 1000 is an int;
\* above that ualarm gets the low 32 bits of the product, and for t above
\* INT_MAX - 1999 the sums overflow as well
C28_InRange ==
    mode = "limits" =>
        /\ j.time_limit <= INT_MAX \div 1000 => TimeArithmetic(j.time_limit)
        /\ j.time_limit <= INT_MAX - 1999 =>
              /\ \A i \in At({"setrlimit_cpu"}) :
                    trace[i].arg = [cur |-> CeilSeconds(j.time_limit),
                                    max |-> CeilSeconds(j.time_limit) + 1]
              /\ \A i \in At({"alarm"}) : trace[i].arg = CeilSeconds(j.time_limit) + 1
        /\ \A i \in At({"ualarm"}) :
              trace[i].arg = Int32(MulSmall(Limbs(j.time_limit), 1000))

\* the first limit whose product with 1000 is no int: ualarm got other
\* microseconds than t * 1000
C28_Witness ==
    /\ mode = "limits"
    /\ j.time_limit = INT_MAX \div 1000 + 1
    /\ \E i \in At({"ualarm"}) : trace[i].arg = -2147483296

\* a limit in range: one millisecond over a second gives 2 and 3 seconds of
\* processor time and an alarm after 3 seconds
C28_InRangeWitness ==
    /\ mode = "limits"
    /\ j.time_limit = 1001
    /\ \E i \in At({"setrlimit_cpu"}) : trace[i].arg = [cur |-> 2, max |-> 3]
    /\ \E i \in At({"ualarm"}) : trace[i].arg = 1001000
    /\ \E i \in At({"alarm"}) : trace[i].arg = 3

\* the ends of the pipes that belong to the parent: the write end of the
\* policy pipe and of the stdin pipe, the read end of the stdout and stderr pipes
PolicyWriteEnd == par.pipe_fds[2]
ParentStdioEnds ==
    (IF "stdin" \in par.want THEN {par.stdin[2]} ELSE {})
        \cup (IF "stdout" \in par.want THEN {par.stdout[1]} ELSE {})
        \cup (IF "stderr" \in par.want THEN {par.stderr[1]} ELSE {})

\* the child side has reached execve (and, with a pid namespace, init its loop)
KidAtExec == kid.pc = "exec"

\* C21: when the child side reaches execve or the loop of init, none of its
\* processes has the write end of the policy pipe or the parent's end of a
\* stdio pipe open
C21_PipeEnds ==
    KidAtExec =>
        (kid.open \cup kid.initopen) \cap ({PolicyWriteEnd} \cup ParentStdioEnds) = {}

\* the part of C21 the code keeps: the parent's ends of the stdio pipes are
\* closed on the child side and the child's ends are its descriptors 0, 1, 2;
\* both ends of the policy pipe stay open there
C21_StdioEnds ==
    KidAtExec =>
        /\ (kid.open \cup kid.initopen) \cap ParentStdioEnds = {}
        /\ "stdin" \in par.want => kid.std[1] = par.stdin[1]
        /\ "stdout" \in par.want => kid.std[2] = par.stdout[2]
        /\ "stderr" \in par.want => kid.std[3] = par.stderr[2]
        /\ {par.pipe_fds[1], par.pipe_fds[2]} \subseteq kid.open
        /\ "pids" \in j.flags => kid.initopen = kid.open

\* the parent has returned 0 and closed its write end of the policy pipe, and
\* the process at execve and init still hold that end
C21_Witness ==
    /\ KidAtExec
    /\ par.pc = "returned"
    /\ par.ret = 0
    /\ par.want = {"stdin", "stdout", "stderr"}
    /\ PolicyWriteEnd \notin par.open
    /\ PolicyWriteEnd \in kid.open
    /\ PolicyWriteEnd \in kid.initopen

\* whether str begins with pre
StartsWith(str, pre) == Len(pre) <= Len(str) /\ SubSeq(str, 1, Len(pre)) = pre

\* whether dest ends at a component boundary of path: path is dest or goes on
\* with a slash
AtBoundary(dest, path) ==
    /\ StartsWith(path, dest)
    /\ Len(path) = Len(dest) \/ path[Len(dest) + 1] = 47

\* an absolute path was resolved and the host file of its first rewrite is no
\* symbolic link, so the buffer is that rewrite
ResolvedDirectly ==
    /\ hpc = "resolved"
    /\ gpath[1] = 47
    /\ gret \in {0, 1}
    /\ Lstat(gfs, ExpectedPath(j, gpath)).kind # "lnk"

\* the bindings whose src, followed by a slash, begins the buffer
SrcInBuffer ==
    { i \in 1..Len(BindingList(j)) :
        StartsWith(BufStr(gbuf), BindingList(j)[i].src \o << 47 >>) }

\* C37: a binding is selected only at a component boundary of the path: when
\* the buffer begins with the src of a binding, the path is the dest of such a
\* binding or goes on with a slash after it ("/a" for "/a" and "/a/d", never
\* for "/ab")
C37_BoundaryAll ==
    ResolvedDirectly =>
        \A i \in SrcInBuffer :
            \E m \in 1..Len(BindingList(j)) :
                /\ BindingList(j)[m].src = BindingList(j)[i].src
                /\ AtBoundary(BindingList(j)[m].dest, gpath)

\* C37, what the code does: the binding is selected whenever its dest begins
\* the path as a string (strncmp over strlen(dest)), boundary or not
C37_Prefix ==
    ResolvedDirectly =>
        /\ \A i \in SrcInBuffer :
              \E m \in 1..Len(BindingList(j)) :
                  /\ BindingList(j)[m].src = BindingList(j)[i].src
                  /\ StartsWith(gpath, BindingList(j)[m].dest)
        /\ BestBinding(BindingList(j), gpath) # 0 =>
              BestBinding(BindingList(j), gpath) \in SrcInBuffer

\* "/ab" was resolved with /x bound at /a: the buffer holds "/x/b"
C37_Witness ==
    /\ hpc = "resolved"
    /\ gpath = << 47, 97, 98 >>
    /\ \E i \in 1..Len(BindingList(j)) :
          BindingList(j)[i].dest = PathA /\ BindingList(j)[i].src = PathX
    /\ BufStr(gbuf) = PathX \o << 47, 98 >>

\* "/a/d" was resolved with /x bound at /a: the match ends at a boundary
C37_BoundaryWitness ==
    /\ ResolvedDirectly
    /\ gpath = PathA \o << 47, 100 >>
    /\ SrcInBuffer # {}
    /\ gret = 0

\* minijail_unmarshal has failed in one of its sections, past the fixed record
UnmarshalFailed == hpc = "unmarshalled" /\ uret # 0 /\ umem.to # "none"

\* no pointer member holds the address of a block that was freed
NoDangling == \A f \in PointerFields : k[f].addr # 0 => [f |-> f, org |-> k[f].org] \notin umem.freed

\* C32: when minijail_unmarshal fails in a section it frees no address that
\* came from the stream, frees every block it allocated during the call, and
\* leaves user, chrootdir and chdir NULL and no member pointing to freed memory
C32_FailureCleanupAll ==
    UnmarshalFailed =>
        /\ \A e \in umem.freed : e.org # "stream"
        /\ umem.made \subseteq umem.freed
        /\ k.user = NULL /\ k.chrootdir = NULL /\ k.chdir = NULL
        /\ NoDangling

\* C32, what the code does: the three strings are NULL after every failure.
\* A failure in the user, chrootdir or filter section is cleaned up as stated.
\* A failure in the chdir section frees the chdir member, which is an address
\* of the stream when the string was missing, and leaves the chrootdir block
\* allocated. A failure in a binding leaves the bindings made so far allocated
\* and linked, and filter_prog pointing to the freed program.
C32_FailureCleanup ==
    UnmarshalFailed =>
        /\ k.user = NULL /\ k.chrootdir = NULL /\ k.chdir = NULL
        /\ umem.to \in {"clear_pointers", "bad_chrootdir", "bad_filters"} =>
              /\ \A e \in umem.freed : e.org # "stream"
              /\ umem.made = umem.freed
              /\ NoDangling
        /\ umem.to = "bad_chdir" =>
              /\ \A e \in umem.freed : e.org = "stream" => e.f = "chdir"
              /\ umem.made \ umem.freed \subseteq { [f |-> "chrootdir", org |-> "heap"] }
              /\ NoDangling
        /\ umem.to = "bad_bindings" =>
              /\ \A e \in umem.freed : e.org # "stream"
              /\ umem.made \ umem.freed \subseteq { [f |-> "bindings_head", org |-> "heap"] }
              /\ \A f \in PointerFields :
                    (k[f].addr # 0 /\ [f |-> f, org |-> k[f].org] \in umem.freed)
                        => f = "filter_prog"

\* the stream ended inside the chdir string: free was given the chdir address
\* of the stream and the chrootdir block was not freed
C32_Witness ==
    /\ UnmarshalFailed
    /\ umem.to = "bad_chdir"
    /\ [f |-> "chdir", org |-> "stream"] \in umem.freed
    /\ [f |-> "chrootdir", org |-> "heap"] \in umem.made \ umem.freed

\* a binding failed after another was made: the first stays allocated
C32_LeakWitness ==
    /\ UnmarshalFailed
    /\ umem.to = "bad_bindings"
    /\ [f |-> "bindings_head", org |-> "heap"] \in umem.made
    /\ k.bindings_head.addr # 0

\* a binding failed after the filter was read: filter_prog points to freed memory
C32_DanglingWitness ==
    /\ UnmarshalFailed
    /\ umem.to = "bad_bindings"
    /\ k.filter_prog.addr # 0
    /\ ~NoDangling

\* the stream ended inside the chrootdir string: the user block was freed and
\* nothing else
C32_CleanWitness ==
    /\ UnmarshalFailed
    /\ umem.to = "bad_chrootdir"
    /\ umem.made = { [f |-> "user", org |-> "heap"] }
    /\ umem.freed = umem.made

\* ---------------------------------------------------------------------------
\* minijail_to_fd and minijail_from_fd on one pipe
\* ---------------------------------------------------------------------------

\* a directory name that alone is longer than USHRT_MAX
PathLong == << 47 >> \o [i \in 1..USHRT_MAX |-> 97]

PipeCalls ==
    << Call("change_user", UserName, << >>, 1000, 1000, "ok"),
       Call("enter_chroot", PathJail, << >>, 0, 0, "ok"),
       Call("enter_chroot", PathLong, << >>, 0, 0, "ok"),
       Call("chroot_chdir", PathWork, << >>, 0, 0, "ok"),
       BindRO,
       Call("use_seccomp_filter", << >>, << >>, 0, 0, "ok"),
       Call("parse_seccomp_filters", ProgOne, << >>, 0, 0, "ok"),
       Call("namespace_pids", << >>, << >>, 0, 0, "ok") >>

\* cells is what the pipe holds: read() gives the size, then up to sz cells;
\* oom = 1 refuses malloc(sz), oom = n + 1 the n-th allocation of minijail_unmarshal
minijail_from_fd(dest, cells, oom) ==
    LET sz == cells[1]
        bytes == Min(sz, Len(cells) - 1)
        u == minijail_unmarshal(dest, [head |-> SubSeq(cells, 2, sz + 1), pad |-> 0], sz,
                                IF oom = 0 THEN 0 ELSE oom - 1)
    IN IF cells = << >> THEN [ret |-> -EINVAL, j |-> dest]
       ELSE IF sz > USHRT_MAX THEN [ret |-> -E2BIG, j |-> dest]
       ELSE IF oom = 1 THEN [ret |-> -ENOMEM, j |-> dest]
       ELSE IF bytes # sz THEN [ret |-> -EINVAL, j |-> dest]
       ELSE [ret |-> u.ret, j |-> u.j]

\* the sender: minijail_to_fd(j, fd) on the write end
ToFd ==
    /\ hpc = "build"
    /\ pipe.pc = "none"
    /\ \E short \in {"", "size", "bytes"} :
          \E r \in { minijail_to_fd(j, short) } :
             pipe' = [pipe EXCEPT !.pc = "written", !.ret = r.ret, !.cells = r.sent]
    /\ hpc' = "sent"
    /\ UNCHANGED << helper, kid, orphans, usage, par, pathVars, callVars, j, ncalls, added, marshalVars,
                    launchVars, waitVars >>

\* the receiver: minijail_from_fd(fd, j) on the read end, into a new Policy
FromFd ==
    /\ pipe.pc = "written"
    /\ \E oom \in 0..2 :
          \E r \in { minijail_from_fd(minijail_new, pipe.cells, oom) } :
             /\ k' = r.j
             /\ uret' = r.ret
             /\ pipe' = [pipe EXCEPT !.pc = "read", !.oom = oom]
    /\ UNCHANGED << helper, kid, orphans, usage, par, pathVars, callVars, j, ncalls, added, hpc, stream, avail,
                    mret, written, ulen, hiRead, umem, launchVars, waitVars >>

NextPipe == Build(PipeCalls) \/ ToFd \/ FromFd

SpecPipe == Init /\ [][NextPipe]_vars

\* minijail_to_fd has returned 0 and minijail_from_fd has read the same pipe
\* with no allocation refused
Handshaken == pipe.pc = "read" /\ pipe.ret = 0 /\ pipe.oom = 0

\* C34: every Policy that minijail_to_fd sends successfully is accepted by
\* minijail_from_fd on the same pipe, which returns success and a Policy equal
\* to the one sent; no size is sent successfully and rejected.
C34_HandshakeAll ==
    Handshaken =>
        /\ uret = 0
        /\ SameButFilter(j, k)
        /\ SamePointee(j.filter_prog, k.filter_prog)

\* what the code does: an image of up to USHRT_MAX cells is accepted and gives
\* the Policy sent (pointer identity, the meta sink and a filter program held
\* without the seccomp_filter flag apart); a larger one is answered -E2BIG and
\* the receiver's Policy is left as it was
C34_Handshake ==
    Handshaken =>
        IF minijail_size(j) <= USHRT_MAX
        THEN /\ uret = 0
             /\ SameButFilter(j, k)
             /\ "seccomp_filter" \in j.flags => SamePointee(j.filter_prog, k.filter_prog)
        ELSE uret = -E2BIG /\ k = minijail_new

\* a Policy whose image is longer than USHRT_MAX has been sent with success
\* and the receiver has answered -E2BIG
C34_Witness ==
    /\ Handshaken
    /\ minijail_size(j) > USHRT_MAX
    /\ Len(pipe.cells) = minijail_size(j) + 1
    /\ uret = -E2BIG

\* a Policy with a user, a binding and the filter flag has made the handshake
C34_AcceptedWitness ==
    /\ Handshaken
    /\ uret = 0
    /\ j.user.addr # 0
    /\ j.binding_count > 0
    /\ SameButFilter(j, k)

\* minijail_kill has returned the wait status of j->initpid
KillCompleted == hpc = "killed"

\* no process of the launch is left: not the target, none it has started
NoSurvivor == cpc # "exec" /\ orphans.live = 0

\* C31: after a completed minijail_kill (SIGTERM to initpid, waitpid on it) no
\* target process survives: the init supervisor kills the grandchild's
\* process group before it exits.
C31_CascadeAll == KillCompleted => NoSurvivor

\* what the code does: minijail_kill returns the wait status of initpid; with a
\* pid namespace init, if it was started, has ended (init_term calls _exit, the
\* kernel ends the namespace) and nothing survives; without one only the target itself, which
\* is initpid, has ended
C31_Cascade ==
    KillCompleted =>
        /\ wret = cstatus
        /\ cpc # "exec"
        /\ HasInit => ipc \notin {"wait", "reaped"} /\ orphans.live = 0

\* a launch without a pid namespace: the target has started a process, SIGTERM
\* has ended the target, minijail_kill has returned and the process lives on
C31_Witness ==
    /\ KillCompleted
    /\ ~HasInit
    /\ wret = SignalStatus(SIGTERM)
    /\ cpc = "done"
    /\ orphans.live > 0

\* with a pid namespace: init has left through init_term while the target and a
\* process it started were alive, and both are gone when minijail_kill returns
C31_InitWitness ==
    /\ KillCompleted
    /\ HasInit
    /\ ipc = "termed"
    /\ tstatus = SignalStatus(SIGKILL)
    /\ orphans = [live |-> 0, reaped |-> 0]
    /\ wret = ExitStatus(0)

\* the time: and mem: values init would print from the usage of process pid
UsageTime(pid) == 1000000 * RusageOf(pid).ru_utime.tv_sec + RusageOf(pid).ru_utime.tv_usec
UsageMem(pid) == RusageOf(pid).ru_maxrss * 1024

\* C33: the time: and mem: values written to the meta sink are the resource
\* usage of the grandchild, in whatever order init reaps the grandchild and
\* the other processes of the namespace.
C33_TargetUsageAll ==
    InitDoneMeta =>
        /\ meta[1].val = UsageTime(ChildPid)
        /\ meta[3].val = UsageMem(ChildPid)

\* what the code does: the values are those of the process wait3 returned
\* last, the grandchild only if nothing was reaped after it
C33_LastReaped ==
    InitDoneMeta =>
        /\ \E pid \in ChildPid..(ChildPid + MaxOrphans) :
              /\ usage = RusageOf(pid)
              /\ meta[1].val = UsageTime(pid)
              /\ meta[3].val = UsageMem(pid)
        /\ orphans.reaped = 0 =>
              meta[1].val = UsageTime(ChildPid) /\ meta[3].val = UsageMem(ChildPid)

\* init has reaped the grandchild and then another process, and has written
\* the usage of that other process
C33_Witness ==
    /\ InitDoneMeta
    /\ orphans.reaped > 0
    /\ usage # RusageOf(ChildPid)
    /\ meta[1].val # UsageTime(ChildPid)
    /\ meta[3].val # UsageMem(ChildPid)

\* the grandchild was reaped last, after another process: its usage is written
C33_TargetLastWitness ==
    /\ InitDoneMeta
    /\ orphans.reaped > 0
    /\ meta[1].val = UsageTime(ChildPid)
    /\ meta[3].val = UsageMem(ChildPid)

\* minijail_run_pid_pipes has returned an error before it reached the fork
FailedBeforeFork == par.pc = "returned" /\ par.ret # 0

\* C35: when minijail_run_pid_pipes returns an error before forking, the host
\* is as before the call: LD_PRELOAD and the policy-fd variable have their
\* values of before the call and no pipe descriptor of the call is open.
C35_FrameAll ==
    FailedBeforeFork =>
        /\ par.env = par.old
        /\ par.fdenv = EnvUnset
        /\ par.open = {}

\* what the code does: the error returns undo nothing. A failure of strdup or
\* of setup_preload leaves the host as it was; after a failed setup_pipe
\* LD_PRELOAD names the preload library; after a failed stdio pipe the
\* policy-fd variable is set as well and the policy pipe and every stdio pipe
\* made before are open
C35_Frame ==
    FailedBeforeFork =>
        /\ par.ret \in {-ENOMEM, -EFAULT}
        /\ par.ret = -ENOMEM => par.env = par.old /\ par.fdenv = EnvUnset /\ par.open = {}
        /\ par.env \in {par.old, setup_preload(par.old)}
        /\ par.pipe_fds = << >> <=> par.fdenv = EnvUnset
        /\ par.pipe_fds # << >> =>
              /\ par.env = setup_preload(par.old)
              /\ par.fdenv = EnvSet(<< par.pipe_fds[1] >>)
              /\ {par.pipe_fds[1], par.pipe_fds[2]} \subseteq par.open
        /\ par.open = {fd \in 0..99 : \E q \in {par.pipe_fds, par.stdin, par.stdout, par.stderr} :
                                         q # << >> /\ fd \in {q[1], q[2]}}

\* the pipe for stderr has failed after those of the policy, stdin and stdout:
\* the call has returned -EFAULT with LD_PRELOAD changed, the policy-fd
\* variable set and six descriptors open
C35_Witness ==
    /\ FailedBeforeFork
    /\ par.ret = -EFAULT
    /\ par.old.set
    /\ par.env = EnvSet(par.old.val \o << 32 >> \o PreloadPath)
    /\ par.fdenv.set
    /\ Cardinality(par.open) = 6

\* strdup has failed: nothing was changed
C35_CleanWitness ==
    /\ FailedBeforeFork
    /\ par.ret = -ENOMEM
    /\ par.env = par.old
    /\ par.open = {}

\* ---------------------------------------------------------------------------
\* the dynamic launch on both sides of execve
\* ---------------------------------------------------------------------------

\* the preload helper in the target: it reads the Policy from the policy pipe,
\* strips it with minijail_preenter and enters the jail
HelperEnter ==
    /\ mode = "run"
    /\ cpc = "exec"
    /\ helper.pc = "none"
    /\ \E r \in { minijail_from_fd(minijail_new, << SLen(stream) >> \o stream.head, 0) } :
          \E p \in { minijail_preenter(r.j) } :
             \E f \in 0..Len(minijail_enter(p)) :
                LET refused == r.ret # 0 \/ EnterRefuses(p)
                    o == IF refused THEN [issued |-> << >>, alive |-> FALSE, failed |-> ""]
                         ELSE RunOps(minijail_enter(p), f)
                    pidns == "pids" \in j.flags
                IN /\ refused => f = 0
                   /\ helper' = [pc |-> IF o.alive THEN "entered" ELSE die, j |-> p,
                                 trace |-> o.issued]
                   /\ cpc' = IF o.alive THEN cpc ELSE die
                   /\ failed' = o.failed
                   /\ tstatus' = IF pidns /\ ~o.alive THEN Aborted ELSE tstatus
                   /\ cstatus' = IF ~pidns /\ ~o.alive THEN Aborted ELSE cstatus
    /\ UNCHANGED << kid, orphans, pipe, usage, par, pathVars, callVars, j, ncalls, added, hpc,
                    marshalVars, mode, cj, trace, enterEnd, ipc, init_exitstatus,
                    signal_override, wret, sid, meta, term >>

NextDynamic == Build(EnterCalls) \/ Launch \/ ChildEnter \/ ChildExec \/ HelperEnter

SpecDynamic == Init /\ [][NextDynamic]_vars

\* system calls of the launcher itself, which are no jail-entry steps
LauncherOps == {"clone_newpid", "launcher_fork", "free", "fork", "setsid", "execve"}

\* the jail-entry steps taken before execve and, by the helper, after it
StepsBefore == SelectSeq(trace, LAMBDA o : o.op \notin LauncherOps)
StepsAfter == helper.trace

\* how often the step o occurs in a sequence of system calls
Times(ops, o) == Cardinality({ i \in 1..Len(ops) : ops[i] = o })

\* the steps one minijail_enter takes for the Policy p inside its pid namespace
StepsOf(p) == minijail_enter([p EXCEPT !.flags = @ \ {"pids"}])

\* the dynamic launch is through: the helper has entered the jail in the target
DynamicDone == mode = "run" /\ cpc = "exec" /\ helper.pc = "entered" /\ failed = ""

\* C36: across the dynamic launch every jail-entry step enabled in the Policy
\* is taken exactly once, by the child before execve or by the preload helper
\* after it: none on both sides, none (the tmpfs mount included) on neither.
C36_ExactlyOnceAll ==
    DynamicDone =>
        /\ \A i \in 1..Len(StepsOf(j)) :
              Times(StepsBefore, StepsOf(j)[i]) + Times(StepsAfter, StepsOf(j)[i])
                 = Times(StepsOf(j), StepsOf(j)[i])
        /\ \A i \in 1..Len(StepsBefore) : Times(StepsAfter, StepsBefore[i]) = 0

\* what the code does: every enabled step is taken once, on one side, but for
\* two: the tmpfs mount is never made, and setgroups(0, NULL), which
\* drop_ugid calls for a non-zero uid or gid whatever the flags are, is called
\* before execve and, unless usergroups is set, once more by the helper
C36_ExactlyOnce ==
    DynamicDone =>
        /\ \A i \in 1..Len(StepsOf(j)) :
              LET o == StepsOf(j)[i]
              IN IF o.op = "mount_tmp"
                 THEN Times(StepsBefore, o) + Times(StepsAfter, o) = 0
                 ELSE IF o.op = "setgroups"
                 THEN Times(StepsBefore, o) = 1 /\ Times(StepsAfter, o) = 1
                 ELSE Times(StepsBefore, o) + Times(StepsAfter, o) = Times(StepsOf(j), o)
        /\ \A i \in 1..Len(StepsBefore) :
              StepsBefore[i].op = "setgroups" \/ Times(StepsOf(j), StepsBefore[i]) > 0
        /\ \A i \in 1..Len(StepsAfter) : Times(StepsOf(j), StepsAfter[i]) > 0
        /\ At({"setgroups"}) # {} <=> (j.uid # 0 \/ j.gid # 0)

\* a Policy with a chroot and mount_tmp has been launched: chroot was called
\* before execve, the helper has entered, and nobody has mounted the tmpfs
C36_Witness ==
    /\ DynamicDone
    /\ {"chroot", "mount_tmp"} \subseteq j.flags
    /\ At({"chroot"}) # {}
    /\ At({"mount_tmp"}) = {}
    /\ \A i \in 1..Len(helper.trace) : helper.trace[i].op # "mount_tmp"

\* setgroups has been called on both sides of execve
C36_TwiceWitness ==
    /\ DynamicDone
    /\ "uid" \in j.flags
    /\ At({"setgroups"}) # {}
    /\ \E i \in 1..Len(helper.trace) : helper.trace[i].op = "setgroups"

\* steps on both sides: the mount namespace before execve, the uid after it
C36_SplitWitness ==
    /\ DynamicDone
    /\ At({"unshare_newns"}) # {}
    /\ \E i \in 1..Len(helper.trace) : helper.trace[i].op = "setresuid"
    /\ "vfs" \notin helper.j.flags

====
